---- MODULE Spec2Model ----
(***************************************************************************)
(* A model of the SDS download scripts of MSDS_Scout: the Sigma-Aldrich    *)
(* adapters (aldrich_sds.py, aldrich_simple.py), the TCI adapter           *)
(* (tci_get.py) and the Thermo Fisher adapter (thermofisher_sds.py), with  *)
(* the shared helpers of sds_common.py.                                    *)
(*                                                                         *)
(* Python strings are modelled as sequences of one-character strings, so   *)
(* that case folding, stripping, substring tests, pattern matching and     *)
(* formatting are computed character by character as the code does.        *)
(***************************************************************************)
EXTENDS Integers, Sequences, FiniteSets, TLC

\* ------------------------------------------------------------------------
\* Bounds of the model
\* ------------------------------------------------------------------------

\* longest --languages argument list
MaxLangs == 2

\* longest --product-url list of a Thermo Fisher run
MaxUrls == 2

\* largest number of catalog pages the category server serves non-empty
MaxPages == 2

\* largest number of items on one catalog page (the page size requested)
MaxPageItems == 2

\* largest count a catalog page reports, and largest --max-products value
MaxCount == 3

\* ------------------------------------------------------------------------
\* Characters and the str methods the scripts use
\* ------------------------------------------------------------------------

\* None where a str is expected
None == <<"None">>

\* None where an object (a record) is expected
NoRecord == [none |-> TRUE]

\* None where an int is expected
NoInt == -1

UpperChars == <<"A", "B", "C", "D", "E", "F", "G", "H", "I", "J", "K", "L", "M", "N", "O", "P", "Q", "R", "S", "T", "U", "V", "W", "X", "Y", "Z">>

LowerChars == <<"a", "b", "c", "d", "e", "f", "g", "h", "i", "j", "k", "l", "m", "n", "o", "p", "q", "r", "s", "t", "u", "v", "w", "x", "y", "z">>

\* the characters of the model in code-point order
AsciiOrder == <<"\n", " ", "\"", "#", "'", "*", "-", ".", "/">> \o <<"0", "1", "2", "3", "4", "5", "6", "7", "8", "9", ":", ";", "=", "?">> \o UpperChars \o <<"_">> \o LowerChars

Ord(c) == CHOOSE i \in 1..Len(AsciiOrder) : AsciiOrder[i] = c

IndexIn(chars, c) == CHOOSE i \in 1..Len(chars) : chars[i] = c

IsUpper(c) == \E i \in 1..Len(UpperChars) : UpperChars[i] = c

IsLower(c) == \E i \in 1..Len(LowerChars) : LowerChars[i] = c

\* str.lower()
Lower(s) == [i \in 1..Len(s) |-> IF IsUpper(s[i]) THEN LowerChars[IndexIn(UpperChars, s[i])] ELSE s[i]]

\* str.upper()
Upper(s) == [i \in 1..Len(s) |-> IF IsLower(s[i]) THEN UpperChars[IndexIn(LowerChars, s[i])] ELSE s[i]]

Whitespace == {" ", "\n"}

QuoteChars == {"\"", "'"}

\* str.strip(chars): drop the leading and trailing characters that are in chars
StripChars(s, chars) ==
    LET keep == {i \in 1..Len(s) : s[i] \notin chars}
    IN IF keep = {} THEN <<>>
       ELSE SubSeq(s, CHOOSE i \in keep : \A j \in keep : i <= j,
                      CHOOSE i \in keep : \A j \in keep : i >= j)

\* str.strip()
Strip(s) == StripChars(s, Whitespace)

\* str.rstrip(chars)
RStripChars(s, chars) ==
    LET keep == {i \in 1..Len(s) : s[i] \notin chars}
    IN IF keep = {} THEN <<>>
       ELSE SubSeq(s, 1, CHOOSE i \in keep : \A j \in keep : i >= j)

\* sub in s
Contains(s, sub) == \E i \in 0..(Len(s) - Len(sub)) : SubSeq(s, i + 1, i + Len(sub)) = sub

\* s.startswith(prefix)
StartsWith(s, prefix) == Len(s) >= Len(prefix) /\ SubSeq(s, 1, Len(prefix)) = prefix

\* a < b on str: lexicographic by code point
StrLess(a, b) ==
    \E k \in 1..(Len(b)) :
        /\ \A i \in 1..(k - 1) : i <= Len(a) /\ a[i] = b[i]
        /\ k - 1 <= Len(a)
        /\ (k > Len(a) \/ Ord(a[k]) < Ord(b[k]))

RECURSIVE SortedSet(_)
\* sorted(S) for a set S of strings
SortedSet(S) ==
    IF S = {} THEN <<>>
    ELSE LET least == CHOOSE x \in S : \A y \in S \ {x} : StrLess(x, y)
         IN <<least>> \o SortedSet(S \ {least})

SeqToSet(s) == {s[i] : i \in 1..Len(s)}

\* [x for x in s if P] as the subsequence of the positions in keep
RECURSIVE SelectIdx(_, _, _)
SelectIdx(s, keep, i) ==
    IF i > Len(s) THEN <<>>
    ELSE (IF i \in keep THEN <<s[i]>> ELSE <<>>) \o SelectIdx(s, keep, i + 1)

\* s.split(sep) for a one-character separator
RECURSIVE Split(_, _)
Split(s, sep) ==
    LET seps == {i \in 1..Len(s) : s[i] = sep}
    IN IF seps = {} THEN <<s>>
       ELSE LET k == CHOOSE i \in seps : \A j \in seps : i <= j
            IN <<SubSeq(s, 1, k - 1)>> \o Split(SubSeq(s, k + 1, Len(s)), sep)

\* ------------------------------------------------------------------------
\* String constants of the scripts and of the modelled inputs
\* ------------------------------------------------------------------------

S_pdf == <<"p", "d", "f">>

S_octet_stream == <<"o", "c", "t", "e", "t", "-", "s", "t", "r", "e", "a", "m">>

S_dot_pdf == <<".", "p", "d", "f">>

S_underscore == <<"_">>

S_filename == <<"f", "i", "l", "e", "n", "a", "m", "e">>

S_http == <<"h", "t", "t", "p">>

CT_pdf == <<"a", "p", "p", "l", "i", "c", "a", "t", "i", "o", "n", "/", "p", "d", "f">>

CT_PDF == <<"a", "p", "p", "l", "i", "c", "a", "t", "i", "o", "n", "/", "P", "D", "F">>

CT_octet == <<"a", "p", "p", "l", "i", "c", "a", "t", "i", "o", "n", "/", "o", "c", "t", "e", "t", "-", "s", "t", "r", "e", "a", "m">>

CT_html == <<"t", "e", "x", "t", "/", "h", "t", "m", "l">>

LangKo == <<"k", "o">>

LangEn == <<"e", "n">>

\* a --languages argument that needs trimming and case folding
LangArgEN == <<" ", "E", "N", " ">>

\* ------------------------------------------------------------------------
\* sds_common.py
\* ------------------------------------------------------------------------

\* sorted(s) for a list s of strings
RECURSIVE SortedList(_)
SortedList(s) ==
    IF s = <<>> THEN <<>>
    ELSE LET k == CHOOSE i \in 1..Len(s) : \A j \in 1..Len(s) : ~StrLess(s[j], s[i])
         IN <<s[k]>> \o SortedList(SubSeq(s, 1, k - 1) \o SubSeq(s, k + 1, Len(s)))

\* normalize_languages with sorted(...) applied to a list instead of a set
normalize_languages_list(languages) ==
    SortedList(SelectIdx([i \in 1..Len(languages) |-> Lower(Strip(languages[i]))],
                         {i \in 1..Len(languages) : Strip(languages[i]) # <<>>}, 1))

\* normalize_languages(languages)
normalize_languages(languages) ==
    IF Len(languages) = 0 THEN <<>>
    ELSE SortedSet({Lower(Strip(languages[i])) :
                       i \in {j \in 1..Len(languages) : Strip(languages[j]) # <<>>}})

\* DownloadRecord(path, languages, source_url, metadata)
DownloadRecord(path, languages, source_url, metadata) ==
    [path |-> path, languages |-> languages, source_url |-> source_url, metadata |-> metadata]

\* build_summary(provider, product_identifier, downloads=...)
build_summary(prov, product_identifier, downloads) ==
    [provider |-> prov, product |-> product_identifier, downloads |-> downloads]

\* ------------------------------------------------------------------------
\* Inputs: command lines and server responses
\* ------------------------------------------------------------------------

\* the values of a --languages list
LangArgs == {LangKo, LangArgEN}

RECURSIVE SeqsUpTo(_, _)
\* the lists over S of length at most n
SeqsUpTo(S, n) ==
    IF n = 0 THEN {<<>>}
    ELSE LET shorter == SeqsUpTo(S, n - 1)
         IN shorter \cup {Append(s, x) : s \in {t \in shorter : Len(t) = n - 1}, x \in S}

LanguageLists == SeqsUpTo(LangArgs, MaxLangs)

Statuses == {200, 204, 404}

CTypes == {CT_pdf, CT_PDF, CT_octet, CT_html}

\* the body of a document response
Bodies == {<<"%", "P", "D", "F", "-", "1">>}

\* response.headers.get("Content-Disposition", "") of a response without the header
NoDisposition == <<>>

\* the parts of a disposition header that names a file
DispParts ==
    { [pre |-> <<"a", "t", "t", "a", "c", "h", "m", "e", "n", "t", ";", " ">>, quote |-> <<"\"">>, name |-> <<"X", ".", "p", "d", "f">>, suf |-> <<>>],
      [pre |-> <<"a", "t", "t", "a", "c", "h", "m", "e", "n", "t", ";", " ">>, quote |-> <<>>, name |-> <<"X", ".", "p", "d", "f">>, suf |-> <<>>],
      [pre |-> <<"i", "n", "l", "i", "n", "e", ";", " ">>, quote |-> <<"'">>, name |-> <<"X", ".", "p", "d", "f">>, suf |-> <<";", " ", "s", "i", "z", "e", "=", "1">>],
      [pre |-> <<"a", "t", "t", "a", "c", "h", "m", "e", "n", "t", ";", " ">>, quote |-> <<>>, name |-> <<"X", ".", "p", "d", "f">>, suf |-> <<";", " ", "s", "i", "z", "e", "=", "1">>] }

BuildDisposition(d) == d.pre \o S_filename \o <<"=">> \o d.quote \o d.name \o d.quote \o d.suf

\* disposition headers from which no file name can be taken
UnparsableDispositions == {<<"a", "t", "t", "a", "c", "h", "m", "e", "n", "t">>, <<"a", "t", "t", "a", "c", "h", "m", "e", "n", "t", ";", " ", "f", "i", "l", "e", "n", "a", "m", "e", "=", "\"", "\"">>}

Dispositions == {NoDisposition} \cup UnparsableDispositions \cup {BuildDisposition(d) : d \in DispParts}

NoResponse == [kind |-> "none", status |-> 0, ctype |-> <<>>, disposition |-> <<>>, content |-> <<>>]

\* the request raised RequestsError (transport error or timeout)
TransportError == [kind |-> "error", status |-> 0, ctype |-> <<>>, disposition |-> <<>>, content |-> <<>>]

HttpResponses(dispositions) ==
    [kind : {"http"}, status : Statuses, ctype : CTypes, disposition : dispositions, content : Bodies]

\* what a document request can come back with
Responses(dispositions) == {TransportError} \cup HttpResponses(dispositions)

\* ------------------------------------------------------------------------
\* State
\* ------------------------------------------------------------------------

VARIABLES
    provider,      \* which script runs: "aldrich", "simple", "tci", "thermofisher"
    pc,            \* position of the script
    args,          \* the parsed command line
    product_url,   \* main's product_url
    html,          \* tci_get: the product page fetched
    languages,     \* the list the per-language loop iterates
    li,            \* index of the next language of that loop
    records,       \* the DownloadRecords collected so far
    files,         \* the files written to the output directory: path and bytes
    response,      \* the response of the last document request
    log,           \* one entry per iteration of a per-language loop: what was reported
    requests,      \* the document requests issued, in order
    summary,       \* the summary printed, None before
    exit_status,   \* the exit status of the process, None while it runs
    downloaded_files, \* aldrich_simple: the paths download_sds_simple returns
    product_urls,  \* thermofisher: the product URLs of product mode
    ui,            \* thermofisher: index of the next URL of handle_product_mode
    prefetched,    \* thermofisher: client._prefetched
    page,          \* iter_category_products: page
    page_requests, \* iter_category_products: the page numbers fetch_category_page was called with, in order
    fetched,       \* iter_category_products: fetched
    data,          \* iter_category_products: data, the payload of the current page;
                   \* resolve_product_from_search: data, the payload of the search
    ri,            \* iter_category_products: index in results of the item last yielded
    product,       \* handle_category_mode: the loop variable product
    visited,       \* thermofisher: the products the product loop has taken up, in order
    root_sku,      \* thermofisher: the root SKU of the product being downloaded
    child_skus,    \* thermofisher: its child SKUs
    product_records, \* download_for_product: records
    processed,     \* thermofisher: the processed list of the handler
    error,         \* thermofisher main: whether the except branch ran
    record,        \* aldrich_mcp main: record, what download_with_playwright returned
    call           \* a function called on its own: its input and what it returned

commonVars == <<provider, pc, args, product_url, html, languages, li, records, files, response, log, requests, summary, exit_status>>

simpleVars == <<downloaded_files>>

mcpVars == <<record>>

callVars == <<call>>

tfVars == <<product_urls, ui, prefetched, page, page_requests, fetched, data, ri, product, visited, root_sku, child_skus, product_records, processed, error>>

Args(mode, urls, langs, download, max_products) ==
    [mode |-> mode, urls |-> urls, languages |-> langs, download_sds |-> download, max_products |-> max_products]

LogEntry(prod, language, outcome, code) ==
    [product |-> prod, language |-> language, outcome |-> outcome, code |-> code]

\* a document request: GET of url, or POST of data to url
Request(method, url, language, form) == [method |-> method, url |-> url, language |-> language, data |-> form]

NoData == [none |-> TRUE]

\* a write that appends to the file at path instead of replacing it
WriteBytes_append(fs, path, content) ==
    {f \in fs : f.path # path}
    \cup {[path |-> path,
           content |-> (IF \E f \in fs : f.path = path
                        THEN (CHOOSE f \in fs : f.path = path).content ELSE <<>>) \o content]}

\* Path.write_bytes: the file at path now holds content
WriteBytes(fs, path, content) == {f \in fs : f.path # path} \cup {[path |-> path, content |-> content]}

\* ------------------------------------------------------------------------
\* aldrich_sds.py
\* ------------------------------------------------------------------------

S_aldrich_host == <<"h", "t", "t", "p", "s", ":", "/", "/", "w", "w", "w", ".", "s", "i", "g", "m", "a", "a", "l", "d", "r", "i", "c", "h", ".", "c", "o", "m", "/">>

S_product_seg == <<"/", "p", "r", "o", "d", "u", "c", "t", "/">>

S_sds_seg == <<"/", "s", "d", "s", "/">>

S_slash == <<"/">>

AldrichUrl == <<"h", "t", "t", "p", "s", ":", "/", "/", "w", "w", "w", ".", "s", "i", "g", "m", "a", "a", "l", "d", "r", "i", "c", "h", ".", "c", "o", "m", "/", "K", "R", "/", "k", "o", "/", "p", "r", "o", "d", "u", "c", "t", "/", "s", "i", "g", "a", "l", "d", "/", "3", "4", "8", "7", "3">>

\* a URL outside the product-page grammar (lower-case country)
AldrichBadUrl == <<"h", "t", "t", "p", "s", ":", "/", "/", "w", "w", "w", ".", "s", "i", "g", "m", "a", "a", "l", "d", "r", "i", "c", "h", ".", "c", "o", "m", "/", "k", "r", "/", "k", "o", "/", "p", "r", "o", "d", "u", "c", "t", "/", "s", "i", "g", "a", "l", "d", "/", "3", "4", "8", "7", "3">>

AldrichUrls == {AldrichUrl, AldrichBadUrl}

\* the longest prefix of s made of characters outside stop
RunOutside(s, stop) ==
    LET stops == {i \in 1..Len(s) : s[i] \in stop}
    IN IF stops = {} THEN s
       ELSE SubSeq(s, 1, (CHOOSE i \in stops : \A j \in stops : i <= j) - 1)

\* re.match of https://www\.sigmaaldrich\.com/([A-Z]{2})/([a-z]{2})/product/([^/]+)/([^STOP]+)
\* where stop is the character class that ends the last group
MatchProductUrl(url, stop) ==
    LET n == Len(S_aldrich_host)
        rest == SubSeq(url, n + 1, Len(url))
        tail == SubSeq(rest, 15, Len(rest))
        brand == RunOutside(tail, {"/"})
        after == SubSeq(tail, Len(brand) + 2, Len(tail))
        number == RunOutside(after, stop)
    IN IF /\ StartsWith(url, S_aldrich_host)
          /\ Len(rest) >= 14
          /\ IsUpper(rest[1]) /\ IsUpper(rest[2])
          /\ rest[3] = "/"
          /\ IsLower(rest[4]) /\ IsLower(rest[5])
          /\ SubSeq(rest, 6, 14) = S_product_seg
          /\ Len(brand) >= 1
          /\ Len(tail) > Len(brand)
          /\ Len(number) >= 1
       THEN [country |-> SubSeq(rest, 1, 2), language |-> SubSeq(rest, 4, 5),
             brand |-> brand, product_number |-> number]
       ELSE NoRecord

\* parse_product_url with ([^/]+) as its last group
parse_product_url_to_slash(url) == MatchProductUrl(url, {"/"})

\* parse_product_url: the last group is ([^/?#]+)
parse_product_url(url) == MatchProductUrl(url, {"/", "?", "#"})

AldrichIsPdf_Any(content_type) == TRUE

\* aldrich_sds.py line 114: the content-type check of download_sds
AldrichIsPdf(content_type) == Contains(Lower(content_type), S_pdf)

\* aldrich_sds.py line 227
AldrichSdsUrl(country, language, brand, product_number) ==
    S_aldrich_host \o country \o S_slash \o language \o S_sds_seg \o brand \o S_slash \o product_number

\* aldrich_sds.py line 228
AldrichFilename(product_number, country, language) ==
    product_number \o S_underscore \o country \o S_underscore \o Upper(language) \o S_dot_pdf

\* download_sds with the content type checked before the status
download_sds_type_first(r, sds_url, output_path, url, language) ==
    IF r.kind = "error" THEN [outcome |-> "transport", code |-> 0, record |-> NoRecord]
    ELSE IF ~Contains(Lower(r.ctype), S_pdf) THEN [outcome |-> "content_type", code |-> 0, record |-> NoRecord]
    ELSE IF r.status # 200 THEN [outcome |-> "http", code |-> r.status, record |-> NoRecord]
    ELSE [outcome |-> "saved", code |-> 0,
          record |-> DownloadRecord(output_path, <<Lower(language)>>, sds_url, [referer |-> url])]

\* AldrichClient.download_sds: what the call reports and the record it returns
download_sds(r, sds_url, output_path, url, language) ==
    IF r.kind = "error" THEN [outcome |-> "transport", code |-> 0, record |-> NoRecord]
    ELSE IF r.status # 200 THEN [outcome |-> "http", code |-> r.status, record |-> NoRecord]
    ELSE IF ~AldrichIsPdf(r.ctype) THEN [outcome |-> "content_type", code |-> 0, record |-> NoRecord]
    ELSE [outcome |-> "saved", code |-> 0,
          record |-> DownloadRecord(output_path, <<Lower(language)>>, sds_url, [referer |-> url])]

\* what the GET of the product page in prime_session can come back with
PrimeResponses ==
    {TransportError}
    \cup [kind : {"http"}, status : {200, 404}, ctype : {CT_html}, disposition : {NoDisposition}, content : {<<>>}]

prime_session_never_raises(r) == TRUE

\* AldrichClient.prime_session (lines 77-84): TRUE when the call returns,
\* FALSE when the request or raise_for_status raises RequestsError
prime_session(r) == r.kind # "error" /\ r.status < 400

\* main up to the language loop: resolve the product URL (lines 178-205),
\* choose the languages (208) and prime the session (210-215)
AldrichMain ==
    /\ provider = "aldrich" /\ pc = "start"
    /\ \E found \in {None} \cup AldrichUrls, r \in PrimeResponses :
          LET url == IF args.mode = "search" THEN found ELSE args.urls[1]
              parsed == IF url = None THEN NoRecord ELSE parse_product_url(url)
          IN /\ product_url' = url
             /\ IF url = None \/ parsed = NoRecord
                THEN /\ pc' = "exited" /\ exit_status' = 1
                     /\ UNCHANGED <<languages, response>>
                ELSE /\ response' = r
                     /\ IF ~prime_session(r)
                        THEN /\ pc' = "exited" /\ exit_status' = 1
                             /\ UNCHANGED languages
                        ELSE /\ pc' = "loop" /\ exit_status' = exit_status
                             /\ languages' = (IF normalize_languages(args.languages) # <<>>
                                              THEN normalize_languages(args.languages)
                                              ELSE <<parsed.language>>)
    /\ UNCHANGED <<provider, args, html, li, records, files, log, requests, summary>>
    /\ UNCHANGED <<simpleVars, tfVars>>
    /\ UNCHANGED <<mcpVars, callVars>>

\* one iteration of main's loop over the languages (lines 226-240)
AldrichDownload ==
    /\ provider = "aldrich" /\ pc = "loop" /\ li <= Len(languages)
    /\ LET p == parse_product_url(product_url)
           language == languages[li]
           sds_url == AldrichSdsUrl(p.country, language, p.brand, p.product_number)
           output_path == AldrichFilename(p.product_number, p.country, language)
       IN \E r \in Responses({NoDisposition}) :
             LET res == download_sds(r, sds_url, output_path, product_url, language)
             IN /\ response' = r
                /\ requests' = Append(requests, Request("GET", sds_url, language, NoData))
                /\ log' = Append(log, LogEntry(p.product_number, language, res.outcome, res.code))
                /\ files' = (IF res.outcome = "saved" THEN WriteBytes(files, output_path, r.content) ELSE files)
                /\ records' = (IF res.record # NoRecord THEN Append(records, res.record) ELSE records)
    /\ li' = li + 1
    /\ UNCHANGED <<provider, pc, args, product_url, html, languages, summary, exit_status>>
    /\ UNCHANGED <<simpleVars, tfVars>>
    /\ UNCHANGED <<mcpVars, callVars>>

\* the end of main: the summary and sys.exit(0 if records else 1) (lines 242-251)
AldrichFinish ==
    /\ provider = "aldrich" /\ pc = "loop" /\ li > Len(languages)
    /\ summary' = build_summary("aldrich", parse_product_url(product_url).product_number, records)
    /\ exit_status' = (IF records # <<>> THEN 0 ELSE 1)
    /\ pc' = "exited"
    /\ UNCHANGED <<provider, args, product_url, html, languages, li, records, files, response, log, requests>>
    /\ UNCHANGED <<simpleVars, tfVars>>
    /\ UNCHANGED <<mcpVars, callVars>>

\* ------------------------------------------------------------------------
\* aldrich_simple.py
\* ------------------------------------------------------------------------

\* the URL pattern of download_sds_simple: the last group is ([^/?]+)
SimpleMatchUrl(url) == MatchProductUrl(url, {"/", "?"})

\* aldrich_simple.py line 68: the content-type check
SimpleIsPdf(content_type) == Contains(content_type, S_pdf)

\* download_sds_simple up to its loop (lines 20-48)
SimpleStart ==
    /\ provider = "simple" /\ pc = "start"
    /\ LET m == SimpleMatchUrl(args.urls[1])
       IN /\ product_url' = args.urls[1]
          /\ IF m = NoRecord
             THEN pc' = "finish" /\ UNCHANGED languages
             ELSE /\ pc' = "loop"
                  /\ languages' = (IF args.languages = <<>> THEN <<m.language>> ELSE args.languages)
    /\ UNCHANGED <<provider, args, html, li, records, files, response, log, requests, summary, exit_status>>
    /\ UNCHANGED <<simpleVars, tfVars>>
    /\ UNCHANGED <<mcpVars, callVars>>

\* one iteration of the loop of download_sds_simple (lines 50-82)
SimpleDownload ==
    /\ provider = "simple" /\ pc = "loop" /\ li <= Len(languages)
    /\ LET m == SimpleMatchUrl(product_url)
           lang == Lower(Strip(languages[li]))
           sds_url == AldrichSdsUrl(m.country, lang, m.brand, m.product_number)
           filename == AldrichFilename(m.product_number, m.country, lang)
       IN IF lang = <<>>
          THEN response' = NoResponse /\ UNCHANGED <<log, requests, files, downloaded_files>>
          ELSE \E r \in Responses({NoDisposition}) :
                 /\ response' = r
                 /\ requests' = Append(requests, Request("GET", sds_url, lang, NoData))
                 /\ IF r.kind = "error"
                    THEN /\ log' = Append(log, LogEntry(m.product_number, lang, "transport", 0))
                         /\ UNCHANGED <<files, downloaded_files>>
                    ELSE IF r.status # 200
                    THEN /\ log' = Append(log, LogEntry(m.product_number, lang, "http", r.status))
                         /\ UNCHANGED <<files, downloaded_files>>
                    ELSE IF ~SimpleIsPdf(r.ctype)
                    THEN /\ log' = Append(log, LogEntry(m.product_number, lang, "content_type", 0))
                         /\ UNCHANGED <<files, downloaded_files>>
                    ELSE /\ log' = Append(log, LogEntry(m.product_number, lang, "saved", 0))
                         /\ files' = WriteBytes(files, filename, r.content)
                         /\ downloaded_files' = Append(downloaded_files, filename)
    /\ li' = li + 1
    /\ UNCHANGED <<provider, pc, args, product_url, html, languages, records, summary, exit_status>>
    /\ UNCHANGED tfVars
    /\ UNCHANGED <<mcpVars, callVars>>

\* the return of download_sds_simple and the rest of main (lines 84-123):
\* main prints the outcome and returns, so the process ends with status 0
SimpleFinish ==
    /\ provider = "simple"
    /\ \/ pc = "finish"
       \/ pc = "loop" /\ li > Len(languages)
    /\ pc' = "exited"
    /\ exit_status' = 0
    /\ UNCHANGED <<provider, args, product_url, html, languages, li, records, files, response, log, requests, summary>>
    /\ UNCHANGED <<simpleVars, tfVars>>
    /\ UNCHANGED <<mcpVars, callVars>>

\* ------------------------------------------------------------------------
\* tci_get.py
\* ------------------------------------------------------------------------

TciUrl == <<"h", "t", "t", "p", "s", ":", "/", "/", "w", "w", "w", ".", "t", "c", "i", "c", "h", "e", "m", "i", "c", "a", "l", "s", ".", "c", "o", "m", "/", "K", "R", "/", "k", "o", "/", "p", "/", "L", "0", "4", "8", "3">>

S_scheme_sep == <<":", "/", "/">>

S_sds_endpoint == <<"/", "d", "o", "c", "u", "m", "e", "n", "t", "S", "e", "a", "r", "c", "h", "/", "p", "r", "o", "d", "u", "c", "t", "S", "D", "S", "S", "e", "a", "r", "c", "h", "D", "o", "c">>

\* the value of ACC.config.encodedContextPath on a page that sets it
EncodedContextPath == <<"\\", "/", "K", "R", "\\", "/", "k", "o">>

CsrfToken == <<"t", "o", "k">>

\* urlparse(url): scheme://netloc (base_url of download_sds_documents, line 160)
UrlBase(url) ==
    LET k == CHOOSE i \in 1..Len(url) : SubSeq(url, i, i + 2) = S_scheme_sep
                 /\ \A j \in 1..(i - 1) : SubSeq(url, j, j + 2) # S_scheme_sep
        netloc == RunOutside(SubSeq(url, k + 3, Len(url)), {"/", "?", "#"})
    IN SubSeq(url, 1, k + 2 + Len(netloc))

\* urlparse(url).path
UrlPath(url) ==
    RunOutside(SubSeq(url, Len(UrlBase(url)) + 1, Len(url)), {"?", "#"})

\* str.replace("\\/", "/")
RECURSIVE UnescapeSlashes(_)
UnescapeSlashes(s) ==
    IF Len(s) = 0 THEN <<>>
    ELSE IF Len(s) >= 2 /\ s[1] = "\\" /\ s[2] = "/"
    THEN <<"/">> \o UnescapeSlashes(SubSeq(s, 3, Len(s)))
    ELSE <<s[1]>> \o UnescapeSlashes(Tail(s))

\* what a product page carries for SDSMetadataParser and the two patterns:
\* the value attribute of input#sdsProductCode and input#selectedCountry
\* (None when the element is missing), the value attributes of the options
\* of select#langSelector in page order, and the values of
\* ACC.config.encodedContextPath and ACC.config.CSRFToken (None when the
\* page does not set them)
Page(product_code, selected_country, langs, context, csrf) ==
    [product_code |-> product_code, selected_country |-> selected_country,
     languages |-> langs, context |-> context, csrf |-> csrf]

Pages ==
    { Page(<<"L", "0", "4", "8", "3">>, <<"K", "R">>, langs, None, CsrfToken) : langs \in {<<>>, <<LangKo>>, <<LangKo, LangEn>>} }
    \cup { Page(<<"L", "0", "4", "8", "3">>, <<"K", "R">>, <<LangKo>>, EncodedContextPath, None),
           Page(None, <<"K", "R">>, <<LangKo>>, None, CsrfToken),
           Page(<<"L", "0", "4", "8", "3">>, None, <<LangKo>>, None, None),
           Page(<<" ">>, <<"K", "R">>, <<LangKo>>, EncodedContextPath, CsrfToken),
           Page(<<"L", "0", "4", "8", "3">>, <<"K", "R">>, <<LangKo, <<" ">>, LangEn>>, None, None) }

\* extract_csrf_token(html)
extract_csrf_token(h) == h.csrf

\* SDSMetadataParser.handle_starttag for an input (lines 99-106): the value
\* attribute stripped, None while the element has not been seen
InputValue(value) == IF value = None THEN None ELSE Strip(value)

\* the option values stripped and sorted, an option without a value left out
OptionValues_sorted(options) ==
    LET values == [i \in 1..Len(options) |-> Strip(options[i])]
    IN SortedList(SelectIdx(values, {i \in 1..Len(values) : values[i] # <<>>}, 1))

\* SDSMetadataParser.languages (lines 109-119): the stripped option values
\* in page order, an option without a value left out
OptionValues(options) ==
    LET values == [i \in 1..Len(options) |-> Strip(options[i])]
    IN SelectIdx(values, {i \in 1..Len(values) : values[i] # <<>>}, 1)

\* parse_sds_metadata that also requires the token
parse_sds_metadata_needs_token(h) ==
    IF InputValue(h.product_code) \in {None, <<>>} \/ InputValue(h.selected_country) \in {None, <<>>}
       \/ h.csrf = None
    THEN NoRecord
    ELSE [product_code |-> InputValue(h.product_code),
          selected_country |-> InputValue(h.selected_country),
          languages |-> OptionValues(h.languages),
          context_path |-> IF h.context = None THEN S_slash
                           ELSE IF UnescapeSlashes(h.context) = <<>> THEN S_slash
                           ELSE UnescapeSlashes(h.context)]

\* parse_sds_metadata(html)
parse_sds_metadata(h) ==
    IF InputValue(h.product_code) \in {None, <<>>} \/ InputValue(h.selected_country) \in {None, <<>>}
    THEN NoRecord
    ELSE [product_code |-> InputValue(h.product_code),
          selected_country |-> InputValue(h.selected_country),
          languages |-> OptionValues(h.languages),
          context_path |-> IF h.context = None THEN S_slash
                           ELSE IF UnescapeSlashes(h.context) = <<>> THEN S_slash
                           ELSE UnescapeSlashes(h.context)]

TciIsPdf_Any(content_type) == TRUE

\* tci_get.py line 206: the content-type check of download_sds_documents
TciIsPdf(content_type) ==
    Contains(Lower(content_type), S_pdf) \/ Contains(Lower(content_type), S_octet_stream)

\* where the pattern filename[^;=\n]*= matches at position i of disposition:
\* the position of its "=", 0 when it does not match there
FilenameKeyAt(disposition, i) ==
    LET stops == {j \in (i + 8)..Len(disposition) : disposition[j] \in {";", "=", "\n"}}
        first == CHOOSE j \in stops : \A k \in stops : j <= k
    IN IF /\ i + 7 <= Len(disposition)
          /\ SubSeq(disposition, i, i + 7) = S_filename
          /\ stops # {}
          /\ disposition[first] = "="
       THEN first
       ELSE 0

\* re.search(r'filename[^;=\n]*=((["\']).*?\2|[^;\n]*)', disposition): group 1
\* of the first match, None without a match (tci_get.py line 214)
DispositionMatch(disposition) ==
    LET starts == {i \in 1..Len(disposition) : FilenameKeyAt(disposition, i) # 0}
        start == CHOOSE i \in starts : \A j \in starts : i <= j
        eq == FilenameKeyAt(disposition, start)
        value == SubSeq(disposition, eq + 1, Len(disposition))
        closing == {j \in 2..Len(value) : value[j] = value[1]
                       /\ \A k \in 2..(j - 1) : value[k] # "\n"}
    IN IF starts = {} THEN None
       ELSE IF Len(value) >= 1 /\ value[1] \in QuoteChars /\ closing # {}
       THEN SubSeq(value, 1, CHOOSE j \in closing : \A k \in closing : j <= k)
       ELSE RunOutside(value, {";", "\n"})

TciFilename_KeepQuotes(product_code, lang, disposition) ==
    LET group == IF disposition = <<>> THEN None ELSE DispositionMatch(disposition)
    IN IF group # None /\ group # <<>> THEN group
       ELSE product_code \o S_underscore \o lang \o S_dot_pdf

\* tci_get.py lines 211-218: the file name of a validated response
TciFilename(product_code, lang, disposition) ==
    LET group == IF disposition = <<>> THEN None ELSE DispositionMatch(disposition)
        parsed == IF group = None THEN <<>> ELSE StripChars(group, QuoteChars)
    IN IF parsed # <<>> THEN parsed
       ELSE product_code \o S_underscore \o lang \o S_dot_pdf

\* tci_get.py lines 161-162: the discovery endpoint
TciSdsUrl(url, context_path) ==
    UrlBase(url) \o RStripChars(context_path, {"/"}) \o S_sds_endpoint

\* tci_get.py lines 176-182: the form posted
TciFormData(metadata, lang, csrf_token) ==
    IF csrf_token = None
    THEN [productCode |-> Upper(metadata.product_code), langSelector |-> lang,
          selectedCountry |-> metadata.selected_country]
    ELSE [productCode |-> Upper(metadata.product_code), langSelector |-> lang,
          selectedCountry |-> metadata.selected_country, CSRFToken |-> csrf_token]

\* tci_get.py line 165: the codes of available_languages
AvailableLanguages(metadata) == {c \in SeqToSet(metadata.languages) : c # <<>>}

TciSkips_Never(available_languages, lang) == FALSE

\* tci_get.py line 172: whether the loop skips a requested language
TciSkips(available_languages, lang) == available_languages # {} /\ lang \notin available_languages

\* what the POST can come back with; the disposition header is read only
\* from a response with status 200
TciResponses ==
    Responses({NoDisposition})
    \cup [kind : {"http"}, status : {200}, ctype : {CT_pdf, CT_html},
          disposition : Dispositions, content : Bodies]

\* main up to the call of download_sds_documents (lines 282-337)
TciMain ==
    /\ provider = "tci" /\ pc = "start"
    /\ \E resolved \in {None, TciUrl}, fetched_page \in Pages \cup {NoRecord} :
          LET url == IF args.mode = "search" THEN resolved ELSE args.urls[1]
              metadata == IF fetched_page = NoRecord THEN NoRecord ELSE parse_sds_metadata(fetched_page)
              requested == IF metadata = NoRecord THEN <<>>
                           ELSE IF normalize_languages(args.languages) # <<>>
                           THEN normalize_languages(args.languages)
                           ELSE SelectIdx(metadata.languages,
                                          {i \in 1..Len(metadata.languages) : metadata.languages[i] # <<>>}, 1)
          IN /\ product_url' = url
             /\ IF url = None \/ fetched_page = NoRecord
                THEN /\ pc' = "exited" /\ exit_status' = 1
                     /\ UNCHANGED <<html, languages>>
                ELSE /\ html' = fetched_page
                     /\ exit_status' = exit_status
                     /\ IF args.download_sds /\ metadata # NoRecord /\ requested # <<>>
                        THEN pc' = "loop" /\ languages' = requested
                        ELSE pc' = "finish" /\ UNCHANGED languages
    /\ UNCHANGED <<provider, args, li, records, files, response, log, requests, summary>>
    /\ UNCHANGED <<simpleVars, tfVars>>
    /\ UNCHANGED <<mcpVars, callVars>>

\* one iteration of the loop of download_sds_documents (lines 168-234)
TciDownload ==
    /\ provider = "tci" /\ pc = "loop" /\ li <= Len(languages)
    /\ LET metadata == parse_sds_metadata(html)
           csrf_token == extract_csrf_token(html)
           sds_url == TciSdsUrl(product_url, metadata.context_path)
           available_languages == AvailableLanguages(metadata)
           lang == Strip(languages[li])
       IN IF lang = <<>>
          THEN response' = NoResponse /\ UNCHANGED <<log, requests, files, records>>
          ELSE IF TciSkips(available_languages, lang)
          THEN /\ log' = Append(log, LogEntry(metadata.product_code, lang, "skipped", 0))
               /\ response' = NoResponse
               /\ UNCHANGED <<requests, files, records>>
          ELSE \E r \in TciResponses :
                 LET filename == TciFilename(metadata.product_code, lang, r.disposition)
                 IN /\ response' = r
                    /\ requests' = Append(requests,
                           Request("POST", sds_url, lang, TciFormData(metadata, lang, csrf_token)))
                    /\ IF r.kind = "error"
                       THEN /\ log' = Append(log, LogEntry(metadata.product_code, lang, "transport", 0))
                            /\ UNCHANGED <<files, records>>
                       ELSE IF r.status # 200
                       THEN /\ log' = Append(log, LogEntry(metadata.product_code, lang, "http", r.status))
                            /\ UNCHANGED <<files, records>>
                       ELSE IF ~TciIsPdf(r.ctype)
                       THEN /\ log' = Append(log, LogEntry(metadata.product_code, lang, "content_type", 0))
                            /\ UNCHANGED <<files, records>>
                       ELSE /\ log' = Append(log, LogEntry(metadata.product_code, lang, "saved", 0))
                            /\ files' = WriteBytes(files, filename, r.content)
                            /\ records' = Append(records,
                                   DownloadRecord(filename, normalize_languages(<<lang>>), sds_url,
                                       [productCode |-> metadata.product_code,
                                        country |-> metadata.selected_country]))
    /\ li' = li + 1
    /\ UNCHANGED <<provider, pc, args, product_url, html, languages, summary, exit_status>>
    /\ UNCHANGED <<simpleVars, tfVars>>
    /\ UNCHANGED <<mcpVars, callVars>>

\* the end of main (lines 338-349): the summary is printed and main returns,
\* so the process ends with status 0
TciFinish ==
    /\ provider = "tci"
    /\ \/ pc = "finish"
       \/ pc = "loop" /\ li > Len(languages)
    /\ LET metadata == parse_sds_metadata(html)
           parts == Split(RStripChars(UrlPath(product_url), {"/"}), "/")
       IN summary' = build_summary("tci",
                        IF metadata # NoRecord THEN metadata.product_code ELSE parts[Len(parts)],
                        records)
    /\ pc' = "exited"
    /\ exit_status' = 0
    /\ UNCHANGED <<provider, args, product_url, html, languages, li, records, files, response, log, requests>>
    /\ UNCHANGED <<simpleVars, tfVars>>
    /\ UNCHANGED <<mcpVars, callVars>>

\* ------------------------------------------------------------------------
\* thermofisher_sds.py
\* ------------------------------------------------------------------------

S_base_host == <<"h", "t", "t", "p", "s", ":", "/", "/", "c", "h", "e", "m", "i", "c", "a", "l", "s", ".", "t", "h", "e", "r", "m", "o", "f", "i", "s", "h", "e", "r", ".", "k", "r">>

S_apac_product == <<"/", "a", "p", "a", "c", "/", "p", "r", "o", "d", "u", "c", "t", "/">>

S_apac_category == <<"/", "a", "p", "a", "c", "/", "s", "e", "a", "r", "c", "h", "/", "c", "a", "t", "e", "g", "o", "r", "y", "/">>

S_category == <<"c", "a", "t", "e", "g", "o", "r", "y">>

S_product == <<"p", "r", "o", "d", "u", "c", "t">>

S_thermofisher == <<"t", "h", "e", "r", "m", "o", "f", "i", "s", "h", "e", "r">>

\* SDS_ENDPOINT
S_sds_api == S_base_host \o <<"/", "a", "p", "a", "c", "/", "a", "p", "i", "/", "d", "o", "c", "u", "m", "e", "n", "t", "/", "s", "e", "a", "r", "c", "h", "/", "s", "d", "s">>

SkuA == <<"A", "1">>

SkuB == <<"B", "2">>

ChildA == <<"A", "1", "-", "5", "G">>

TfUrlA == S_base_host \o S_apac_product \o SkuA

TfUrlB == S_base_host \o S_apac_product \o SkuB

TfCategoryUrl == S_base_host \o S_apac_category \o <<"8", "0", "0", "1", "3", "4", "9", "5">>

\* the document URL the SDS lookup answers with
TfPdfUrl == <<"h", "t", "t", "p", "s", ":", "/", "/", "a", "s", "s", "e", "t", "s", ".", "t", "h", "e", "r", "m", "o", "f", "i", "s", "h", "e", "r", ".", "k", "r", "/", "s", "d", "s", "/", "A", "1", ".", "p", "d", "f">>

\* an answer of the SDS lookup that is no absolute URL
TfRelativeUrl == <<"/", "s", "d", "s", "/", "A", "1", ".", "p", "d", "f">>

\* a call of _request_json that raised: transport error, HTTP error status,
\* payload code other than "200", or payload without data
ApiError == [ok |-> FALSE, value |-> <<>>]

\* a call of _request_json that returned value
ApiResult(value) == [ok |-> TRUE, value |-> value]

\* the outcomes of a call of _request_json whose data is one of values
ApiAnswers(values) == {ApiError} \cup {ApiResult(v) : v \in values}

\* the catalogResultDTOs entries a category page or a keyword search can carry;
\* None stands for a missing field
CatalogEntry(root, child) == [rootCatalogNumber |-> root, childCatalogNumber |-> child]

CatalogEntries == {CatalogEntry(SkuA, ChildA), CatalogEntry(None, ChildA)}

\* the values of the count field of a category page, NoInt when it is missing
Counts == {NoInt, 1, MaxCount}

\* the values of --max-products, NoInt when it is not given
Caps == {NoInt, 0, 1, MaxCount}

CategoryData(items, cnt) == [catalogResultDTOs |-> items, count |-> cnt]

\* the payloads the category endpoint can answer page number p with; the
\* server of the model serves no items beyond page MaxPages
PageResponses(p) ==
    { CategoryData(items, cnt) :
         items \in (IF p > MaxPages THEN {<<>>} ELSE SeqsUpTo(CatalogEntries, MaxPageItems)),
         cnt \in Counts }

\* the catalogResultDTOs of a keyword search
SearchResults == {<<>>, <<CatalogEntry(SkuA, ChildA)>>, <<CatalogEntry(SkuA, None)>>,
                   <<CatalogEntry(SkuA, None), CatalogEntry(SkuA, ChildA)>>}

\* the released child SKUs the child endpoint lists
ChildLists == {<<>>, <<ChildA, ChildA>>}

\* extract_last_segment(url, keyword); None when it raises ValueError
extract_last_segment(url, keyword) ==
    LET segments == Split(UrlPath(url), "/")
        parts == SelectIdx(segments, {i \in 1..Len(segments) : segments[i] # <<>>}, 1)
        hits == {i \in 1..Len(parts) : parts[i] = keyword}
        idx == CHOOSE i \in hits : \A j \in hits : i <= j
    IN IF hits # {} /\ idx + 1 <= Len(parts) THEN parts[idx + 1]
       ELSE IF parts # <<>> THEN parts[Len(parts)]
       ELSE None

\* handle_category_mode line 348: the category id of each category URL a run
\* can be given
CategoryId == [url \in {TfCategoryUrl} |-> extract_last_segment(url, S_category)]

\* resolve_languages(languages)
resolve_languages(langs) ==
    LET normalized == normalize_languages(langs)
    IN IF normalized = <<>> THEN <<LangKo>>
       ELSE SortedSet({Split(normalized[i], "-")[1] : i \in 1..Len(normalized)})

\* ensure_page_loaded that puts the URL into the set before the GET
ensure_page_loaded_adds_first(pref, url, ok) ==
    IF url \in pref THEN [returned |-> TRUE, prefetched |-> pref, requested |-> FALSE]
    ELSE IF ok THEN [returned |-> TRUE, prefetched |-> pref \cup {url}, requested |-> TRUE]
    ELSE [returned |-> FALSE, prefetched |-> pref \cup {url}, requested |-> TRUE]

\* ThermoFisherClient.ensure_page_loaded(url), where ok tells whether a GET of
\* url would succeed: whether the call returns, and _prefetched after it
ensure_page_loaded(pref, url, ok) ==
    IF url \in pref THEN [returned |-> TRUE, prefetched |-> pref, requested |-> FALSE]
    ELSE IF ok THEN [returned |-> TRUE, prefetched |-> pref \cup {url}, requested |-> TRUE]
    ELSE [returned |-> FALSE, prefetched |-> pref, requested |-> TRUE]

\* collect_child_skus(client, root_sku, seed_child_sku), where ok is the
\* outcome of priming the product page and children the answer of the child
\* endpoint
collect_child_skus(pref, root, seed, ok, children) ==
    LET loaded == ensure_page_loaded(pref, S_base_host \o S_apac_product \o root, ok)
    IN IF ~loaded.returned \/ ~children.ok
       THEN [returned |-> FALSE, prefetched |-> loaded.prefetched, child_skus |-> <<>>]
       ELSE [returned |-> TRUE, prefetched |-> loaded.prefetched,
             child_skus |-> SortedSet(SeqToSet(IF children.value = <<>> THEN <<seed>> ELSE children.value))]

\* thermofisher_sds.py lines 223-224: the content-type check of download_pdf
TfIsPdf(content_type) == Contains(Lower(content_type), S_pdf)

\* response.raise_for_status() raises for the 4xx and 5xx statuses
RaisesForStatus(status) == status >= 400

\* thermofisher_sds.py line 322
TfFilename(root, language) == root \o S_underscore \o Upper(language) \o S_dot_pdf

\* iter_category_products line 276: the cap ends the enumeration
CapReached(max_products, n) == max_products # NoInt /\ n >= max_products

\* a count that never ends the enumeration
CountReached_never(d, n) == FALSE

\* iter_category_products lines 278-279: the reported count ends the enumeration
CountReached(d, n) == n >= (IF d.count = NoInt THEN n ELSE d.count)

\* main's except branch (lines 517-520)
TfExcept ==
    /\ pc' = "finish"
    /\ error' = TRUE

\* main up to the call of the handler (lines 471-508)
TfMain ==
    /\ provider = "thermofisher" /\ pc = "start"
    /\ languages' = resolve_languages(args.languages)
    /\ IF args.mode = "category"
       THEN /\ pc' = "gen_first"
            /\ UNCHANGED <<product_urls, prefetched, error, exit_status, data>>
       ELSE IF args.mode = "url"
       THEN /\ pc' = "products"
            /\ product_urls' = args.urls
            /\ UNCHANGED <<prefetched, error, exit_status, data>>
       ELSE \E ok \in BOOLEAN, found \in ApiAnswers(SearchResults) :
               LET loaded == ensure_page_loaded(prefetched, S_base_host, ok)
                   child_sku == IF found.value = <<>> THEN None
                                ELSE found.value[1].childCatalogNumber
               IN /\ prefetched' = loaded.prefetched
                  /\ IF ~loaded.returned \/ ~found.ok
                     THEN TfExcept /\ UNCHANGED <<product_urls, exit_status, data>>
                     ELSE /\ data' = CategoryData(found.value, NoInt)
                          /\ IF child_sku = None \/ Strip(child_sku) = <<>>
                             THEN /\ pc' = "exited" /\ exit_status' = 1
                                  /\ UNCHANGED <<product_urls, error>>
                             ELSE /\ pc' = "products"
                                  /\ product_urls' = <<S_base_host \o S_apac_product \o Strip(child_sku)>>
                                  /\ UNCHANGED <<error, exit_status>>
    /\ UNCHANGED <<provider, args, product_url, html, li, records, files, response, log, requests, summary>>
    /\ UNCHANGED <<simpleVars, page_requests, ui, page, fetched, ri, product, visited, root_sku, child_skus, product_records, processed>>
    /\ UNCHANGED <<mcpVars, callVars>>

\* the outcomes of priming url that differ: a URL already in pref is not requested
PrimeOutcomes(pref, url) == IF url \in pref THEN {TRUE} ELSE BOOLEAN

\* handle_product_mode: one pass of the loop over the URLs up to the call of
\* download_for_product (lines 392-410)
TfProductBegin ==
    /\ provider = "thermofisher" /\ pc = "products" /\ ui <= Len(product_urls)
    /\ LET url == product_urls[ui]
           root == extract_last_segment(url, S_product)
       IN /\ visited' = Append(visited, url)
          /\ \E ok1 \in PrimeOutcomes(prefetched, url) :
                LET loaded == ensure_page_loaded(prefetched, url, ok1)
                IN IF root = None \/ ~loaded.returned
                   THEN /\ TfExcept
                        /\ prefetched' = loaded.prefetched
                        /\ UNCHANGED <<ui, log, root_sku, child_skus, li, product_records>>
                   ELSE \E found \in ApiAnswers(SearchResults) :
                      IF ~found.ok \/ found.value = <<>>
                      THEN /\ log' = Append(log, LogEntry(root, None,
                                        IF ~found.ok THEN "search_failed" ELSE "no_results", 0))
                           /\ ui' = ui + 1
                           /\ prefetched' = loaded.prefetched
                           /\ UNCHANGED <<pc, error, root_sku, child_skus, li, product_records>>
                      ELSE LET child == IF found.value[1].childCatalogNumber = None THEN root
                                        ELSE found.value[1].childCatalogNumber
                           IN \E ok2 \in PrimeOutcomes(loaded.prefetched, S_base_host \o S_apac_product \o root),
                                 children \in ApiAnswers(ChildLists) :
                                 LET collected == collect_child_skus(loaded.prefetched, root, child, ok2, children)
                                 IN IF ~collected.returned
                                    THEN /\ TfExcept
                                         /\ prefetched' = collected.prefetched
                                         /\ UNCHANGED <<ui, log, root_sku, child_skus, li, product_records>>
                                    ELSE /\ pc' = "download"
                                         /\ prefetched' = collected.prefetched
                                         /\ root_sku' = root
                                         /\ child_skus' = collected.child_skus
                                         /\ li' = 1
                                         /\ product_records' = <<>>
                                         /\ UNCHANGED <<ui, log, error>>
    /\ UNCHANGED <<provider, args, product_url, html, languages, records, files, response, requests, summary, exit_status>>
    /\ UNCHANGED <<simpleVars, page_requests, product_urls, page, fetched, data, ri, product, processed>>
    /\ UNCHANGED <<mcpVars, callVars>>

\* FetchPage whose generator neither ends nor goes on after an empty page
FetchPage_stalls(p) ==
    \E answer \in ApiAnswers(PageResponses(p)) :
       /\ page' = p
       /\ page_requests' = Append(page_requests, p)
       /\ IF ~answer.ok
          THEN TfExcept /\ UNCHANGED <<data, ri, product, visited>>
          ELSE /\ data' = answer.value
               /\ error' = error
               /\ IF answer.value.catalogResultDTOs = <<>>
                  THEN pc' = "stalled" /\ UNCHANGED <<ri, product, visited>>
                  ELSE /\ pc' = "body"
                       /\ ri' = 1
                       /\ product' = answer.value.catalogResultDTOs[1]
                       /\ visited' = Append(visited, answer.value.catalogResultDTOs[1])

\* iter_category_products lines 263-274: request page p and yield its first
\* item, or stop on an empty page; an error of the request reaches main
FetchPage(p) ==
    \E answer \in ApiAnswers(PageResponses(p)) :
       /\ page' = p
       /\ page_requests' = Append(page_requests, p)
       /\ IF ~answer.ok
          THEN TfExcept /\ UNCHANGED <<data, ri, product, visited>>
          ELSE /\ data' = answer.value
               /\ error' = error
               /\ IF answer.value.catalogResultDTOs = <<>>
                  THEN pc' = "finish" /\ UNCHANGED <<ri, product, visited>>
                  ELSE /\ pc' = "body"
                       /\ ri' = 1
                       /\ product' = answer.value.catalogResultDTOs[1]
                       /\ visited' = Append(visited, answer.value.catalogResultDTOs[1])

\* handle_category_mode asks the generator for its first item (lines 348-357
\* and 257-274)
TfCategoryFirst ==
    /\ provider = "thermofisher" /\ pc = "gen_first"
    /\ \E ok \in BOOLEAN :
          LET category_id == CategoryId[args.urls[1]]
              loaded == ensure_page_loaded(prefetched, S_base_host \o S_apac_category \o category_id, ok)
          IN /\ prefetched' = loaded.prefetched
             /\ IF ~loaded.returned
                THEN TfExcept /\ UNCHANGED <<page, data, ri, product, visited, page_requests>>
                ELSE FetchPage(1)
    /\ UNCHANGED <<provider, args, product_url, html, languages, li, records, files, response, log, requests, summary, exit_status>>
    /\ UNCHANGED <<simpleVars, product_urls, ui, fetched, root_sku, child_skus, product_records, processed>>
    /\ UNCHANGED <<mcpVars, callVars>>

\* handle_category_mode asks the generator for its next item: the generator
\* resumes after its yield (lines 275-281, then 263-274)
TfCategoryNext ==
    /\ provider = "thermofisher" /\ pc = "gen_resume"
    /\ fetched' = fetched + 1
    /\ IF CapReached(args.max_products, fetched + 1)
       THEN pc' = "finish" /\ UNCHANGED <<page, data, ri, product, visited, error, page_requests>>
       ELSE IF ri < Len(data.catalogResultDTOs)
       THEN /\ pc' = "body"
            /\ ri' = ri + 1
            /\ product' = data.catalogResultDTOs[ri + 1]
            /\ visited' = Append(visited, data.catalogResultDTOs[ri + 1])
            /\ UNCHANGED <<page, data, error, page_requests>>
       ELSE IF CountReached(data, fetched + 1)
       THEN pc' = "finish" /\ UNCHANGED <<page, data, ri, product, visited, error, page_requests>>
       ELSE FetchPage(page + 1)
    /\ UNCHANGED <<provider, args, product_url, html, languages, li, records, files, response, log, requests, summary, exit_status>>
    /\ UNCHANGED <<simpleVars, product_urls, ui, prefetched, root_sku, child_skus, product_records, processed>>
    /\ UNCHANGED <<mcpVars, callVars>>

\* handle_category_mode: the loop body up to the call of download_for_product
\* (lines 358-363)
TfCategoryBody ==
    /\ provider = "thermofisher" /\ pc = "body"
    /\ LET root == product.rootCatalogNumber
           child == product.childCatalogNumber
       IN IF root \in {None, <<>>} \/ child \in {None, <<>>}
          THEN /\ log' = Append(log, LogEntry(root, None, "no_skus", 0))
               /\ pc' = "gen_resume"
               /\ UNCHANGED <<prefetched, error, root_sku, child_skus, li, product_records>>
          ELSE \E ok \in PrimeOutcomes(prefetched, S_base_host \o S_apac_product \o root),
                  children \in ApiAnswers(ChildLists) :
                  LET collected == collect_child_skus(prefetched, root, child, ok, children)
                  IN IF ~collected.returned
                     THEN /\ TfExcept
                          /\ prefetched' = collected.prefetched
                          /\ UNCHANGED <<log, root_sku, child_skus, li, product_records>>
                     ELSE /\ pc' = "download"
                          /\ prefetched' = collected.prefetched
                          /\ root_sku' = root
                          /\ child_skus' = collected.child_skus
                          /\ li' = 1
                          /\ product_records' = <<>>
                          /\ UNCHANGED <<log, error>>
    /\ UNCHANGED <<provider, args, product_url, html, languages, records, files, response, requests, summary, exit_status>>
    /\ UNCHANGED <<simpleVars, page_requests, product_urls, ui, page, fetched, data, ri, product, visited, processed>>
    /\ UNCHANGED <<mcpVars, callVars>>

\* what the document request of a Thermo Fisher run can come back with; a
\* category run meets a server that either fails or serves a PDF
TfResponses ==
    IF args.mode = "category"
    THEN {TransportError, [kind |-> "http", status |-> 200, ctype |-> CT_pdf,
                           disposition |-> NoDisposition, content |-> CHOOSE b \in Bodies : TRUE]}
    ELSE Responses({NoDisposition})

\* the answers of the SDS lookup
SdsLookups ==
    IF args.mode = "category" THEN {ApiResult(TfPdfUrl)} ELSE ApiAnswers({TfPdfUrl, TfRelativeUrl})

\* download_for_product: one iteration of the loop over the languages (lines
\* 311-335); every exception of the iteration is reported by the one [WARN] line
TfDownload ==
    /\ provider = "thermofisher" /\ pc = "download" /\ li <= Len(languages)
    /\ LET language == languages[li]
           file_name == TfFilename(root_sku, language)
           lookup == Request("GET", S_sds_api, language, NoData)
       IN \E found \in SdsLookups :
             IF ~found.ok \/ ~StartsWith(found.value, S_http)
             THEN /\ requests' = Append(requests, lookup)
                  /\ response' = NoResponse
                  /\ log' = Append(log, LogEntry(root_sku, language, "warn", 0))
                  /\ UNCHANGED <<files, product_records>>
             ELSE \E r \in TfResponses :
                  /\ requests' = requests \o <<lookup, Request("GET", found.value, language, NoData)>>
                  /\ response' = r
                  /\ IF r.kind = "error"
                     THEN /\ log' = Append(log, LogEntry(root_sku, language, "warn", 0))
                          /\ UNCHANGED <<files, product_records>>
                     ELSE IF RaisesForStatus(r.status)
                     THEN /\ log' = Append(log, LogEntry(root_sku, language, "warn", 0))
                          /\ UNCHANGED <<files, product_records>>
                     ELSE IF ~TfIsPdf(r.ctype)
                     THEN /\ log' = Append(log, LogEntry(root_sku, language, "warn", 0))
                          /\ UNCHANGED <<files, product_records>>
                     ELSE /\ log' = Append(log, LogEntry(root_sku, language, "saved", 0))
                          /\ files' = WriteBytes(files, file_name, r.content)
                          /\ product_records' = Append(product_records,
                                 DownloadRecord(file_name, <<language>>, found.value, [rootSku |-> root_sku]))
    /\ li' = li + 1
    /\ UNCHANGED <<provider, pc, args, product_url, html, languages, records, summary, exit_status>>
    /\ UNCHANGED <<simpleVars, page_requests, product_urls, ui, prefetched, page, fetched, data, ri, product, visited, root_sku, child_skus, processed, error>>
    /\ UNCHANGED <<mcpVars, callVars>>

\* the return of download_for_product and the end of the handler's loop body
\* (lines 336, 371-373 and 418-420)
TfProductEnd ==
    /\ provider = "thermofisher" /\ pc = "download" /\ li > Len(languages)
    /\ IF product_records # <<>>
       THEN /\ processed' = Append(processed, root_sku)
            /\ records' = records \o product_records
       ELSE UNCHANGED <<processed, records>>
    /\ IF args.mode = "category"
       THEN pc' = "gen_resume" /\ UNCHANGED ui
       ELSE pc' = "products" /\ ui' = ui + 1
    /\ UNCHANGED <<provider, args, product_url, html, languages, li, files, response, log, requests, summary, exit_status>>
    /\ UNCHANGED <<simpleVars, page_requests, product_urls, prefetched, page, fetched, data, ri, product, visited, root_sku, child_skus, product_records, error>>
    /\ UNCHANGED <<mcpVars, callVars>>

\* the return of the handler and the end of main (lines 374-380, 421-422 and
\* 517-529): after an exception all_records is emptied; the summary is printed
\* and main returns, so the process ends with status 0
TfFinish ==
    /\ provider = "thermofisher"
    /\ \/ pc = "finish"
       \/ pc = "products" /\ ui > Len(product_urls)
    /\ summary' = build_summary(S_thermofisher,
                      IF error THEN S_thermofisher
                      ELSE IF args.mode = "category" THEN S_category ELSE S_product,
                      IF error THEN <<>> ELSE records)
    /\ pc' = "exited"
    /\ exit_status' = 0
    /\ UNCHANGED <<provider, args, product_url, html, languages, li, records, files, response, log, requests>>
    /\ UNCHANGED <<simpleVars, tfVars>>
    /\ UNCHANGED <<mcpVars, callVars>>

\* ------------------------------------------------------------------------
\* The runs
\* ------------------------------------------------------------------------

InitCommon ==
    /\ pc = "start"
    /\ product_url = None
    /\ html = NoRecord
    /\ languages = <<>>
    /\ li = 1
    /\ records = <<>>
    /\ files = {}
    /\ response = NoResponse
    /\ log = <<>>
    /\ requests = <<>>
    /\ summary = NoRecord
    /\ exit_status = NoInt
    /\ downloaded_files = <<>>
    /\ product_urls = <<>>
    /\ ui = 1
    /\ prefetched = {}
    /\ page = 1
    /\ page_requests = <<>>
    /\ fetched = 0
    /\ data = NoRecord
    /\ ri = 0
    /\ product = NoRecord
    /\ visited = <<>>
    /\ root_sku = None
    /\ child_skus = <<>>
    /\ product_records = <<>>
    /\ processed = <<>>
    /\ error = FALSE
    /\ record = NoRecord

\* aldrich_sds.py --product-url URL | --search-term TERM [-l LANG ...]
InitAldrich ==
    /\ provider = "aldrich"
    /\ \E mode \in {"url", "search"}, url \in AldrichUrls, langs \in LanguageLists :
          args = Args(mode, IF mode = "url" THEN <<url>> ELSE <<>>, langs, FALSE, NoInt)

\* aldrich_simple.py URL [-l LANG ...]
InitSimple ==
    /\ provider = "simple"
    /\ \E url \in AldrichUrls, langs \in LanguageLists :
          args = Args("url", <<url>>, langs, FALSE, NoInt)

\* tci_get.py [--product-url URL] [--search-term TERM] [--download-sds] [--languages LANG ...]
InitTci ==
    /\ provider = "tci"
    /\ \E mode \in {"url", "search"}, langs \in LanguageLists, download \in BOOLEAN :
          args = Args(mode, <<TciUrl>>, langs, download, NoInt)

\* the --product-url lists of a Thermo Fisher run
TfUrlLists == {s \in SeqsUpTo({TfUrlA, TfUrlB}, MaxUrls) : Len(s) >= 1 /\ s[1] = TfUrlA}

\* the -l lists of a Thermo Fisher run: the default, and two languages given
\* in an order that is not the sorted one; a run over several URLs uses the
\* default
TfLanguageLists == {<<>>, <<LangKo, LangArgEN>>}

\* thermofisher_sds.py --product-url URL ... | --search-term TERM | --category-url URL
\*                     [-l LANG ...] [--max-products N]
InitThermoFisher ==
    /\ provider = "thermofisher"
    /\ \/ \E urls \in TfUrlLists, langs \in TfLanguageLists :
             /\ (Len(urls) = 1 \/ langs = <<>>)
             /\ args = Args("url", urls, langs, FALSE, NoInt)
       \/ args = Args("search", <<>>, <<>>, FALSE, NoInt)
       \/ \E cap \in Caps :
             args = Args("category", <<TfCategoryUrl>>, <<>>, FALSE, cap)

vars == <<commonVars, simpleVars, tfVars, mcpVars, callVars>>

\* ------------------------------------------------------------------------
\* Functions called on their own
\* ------------------------------------------------------------------------

\* longest list handed to normalize_languages on its own
MaxNormalize == 3

\* a call of the function fn on input: step counts the applications made,
\* output is what the first returned and again what the second returned
Call(fn, input) == [fn |-> fn, input |-> input, output |-> <<>>, again |-> <<>>, step |-> 0]

\* no function is called on its own during a run of a script
NoCall == Call("none", <<>>)

\* the entries of the lists handed to normalize_languages: codes in both
\* letter cases, with and without surrounding blanks, and a blank entry
NormalizeArgs == {LangKo, LangEn, LangArgEN, <<" ">>}

NormalizeInputs == SeqsUpTo(NormalizeArgs, MaxNormalize)

\* normalize_languages(languages) on a list of the caller
CallNormalize ==
    /\ call.fn = "normalize_languages" /\ call.step = 0
    /\ call' = [call EXCEPT !.output = normalize_languages(call.input), !.step = 1]
    /\ UNCHANGED <<commonVars, simpleVars, tfVars, mcpVars>>

\* normalize_languages on the list it returned
CallNormalizeAgain ==
    /\ call.fn = "normalize_languages" /\ call.step = 1
    /\ call' = [call EXCEPT !.again = normalize_languages(call.output), !.step = 2]
    /\ UNCHANGED <<commonVars, simpleVars, tfVars, mcpVars>>

\* the strings a product URL is put together from: host, country, language,
\* brand, product number and what follows the product number
ProductUrlParts ==
    [host : {S_aldrich_host, <<"h", "t", "t", "p", ":", "/", "/", "w", "w", "w", ".", "s", "i", "g", "m", "a", "a", "l", "d", "r", "i", "c", "h", ".", "c", "o", "m", "/">>, <<"h", "t", "t", "p", "s", ":", "/", "/", "w", "w", "w", "X", "s", "i", "g", "m", "a", "a", "l", "d", "r", "i", "c", "h", ".", "c", "o", "m", "/">>},
     country : {<<"K", "R">>, <<"k", "r">>, <<"K">>},
     language : {<<"k", "o">>, <<"K", "O">>},
     brand : {<<"s", "i", "a", "l">>, <<>>},
     product_number : {<<"3", "4", "8", "7", "3">>, <<>>},
     rest : {<<>>, <<"/", "s", "p", "e", "c", "s">>, <<"?", "x", "=", "1">>, <<"#", "s", "d", "s">>}]

\* the URL put together from parts p
BuildProductUrl(p) ==
    p.host \o p.country \o S_slash \o p.language \o S_product_seg \o p.brand \o S_slash
        \o p.product_number \o p.rest

\* the product URL of the four parts parse_product_url returned
ProductUrlOf(parsed) ==
    BuildProductUrl([host |-> S_aldrich_host, country |-> parsed.country, language |-> parsed.language,
                     brand |-> parsed.brand, product_number |-> parsed.product_number, rest |-> <<>>])

\* parse_product_url(product_url) on a URL of the caller
CallParse ==
    /\ call.fn = "parse_product_url" /\ call.step = 0
    /\ call' = [call EXCEPT !.output = parse_product_url(call.input), !.step = 1]
    /\ UNCHANGED <<commonVars, simpleVars, tfVars, mcpVars>>

\* parse_product_url on the URL rebuilt from the parts it returned
CallParseAgain ==
    /\ call.fn = "parse_product_url" /\ call.step = 1
    /\ call.output # NoRecord
    /\ call' = [call EXCEPT !.again = parse_product_url(ProductUrlOf(call.output)), !.step = 2]
    /\ UNCHANGED <<commonVars, simpleVars, tfVars, mcpVars>>

\* what a fetch of one (product, language) pair is given: the product URL,
\* the language and the answer of the server to the document request
FetchInputs ==
    [url : {AldrichUrl}, language : {LangKo, LangEn}, response : Responses({NoDisposition})]

\* Path.read_bytes: the bytes of the file at path, None when there is no file
ReadBytes(fs, path) ==
    IF \E f \in fs : f.path = path THEN (CHOOSE f \in fs : f.path = path).content ELSE None

\* one fetch of the pair of call.input as one pass of the loop of
\* aldrich_sds.main (lines 226-240) makes it, the server answering with
\* call.input.response; what is kept of it is the output path, whether a
\* record was returned and the bytes the path holds afterwards
AldrichFetch(step) ==
    /\ call.fn = "download_sds" /\ call.step = step
    /\ LET p == parse_product_url(call.input.url)
           language == call.input.language
           r == call.input.response
           sds_url == AldrichSdsUrl(p.country, language, p.brand, p.product_number)
           output_path == AldrichFilename(p.product_number, p.country, language)
           res == download_sds(r, sds_url, output_path, call.input.url, language)
           fetched_ == [path |-> output_path, saved |-> res.record # NoRecord,
                        bytes |-> ReadBytes(files', output_path)]
       IN /\ response' = r
          /\ requests' = Append(requests, Request("GET", sds_url, language, NoData))
          /\ log' = Append(log, LogEntry(p.product_number, language, res.outcome, res.code))
          /\ files' = (IF res.outcome = "saved" THEN WriteBytes(files, output_path, r.content) ELSE files)
          /\ records' = (IF res.record # NoRecord THEN Append(records, res.record) ELSE records)
          /\ call' = (IF step = 0 THEN [call EXCEPT !.output = fetched_, !.step = 1]
                      ELSE [call EXCEPT !.again = fetched_, !.step = 2])
    /\ UNCHANGED <<provider, pc, args, product_url, html, languages, li, summary, exit_status>>
    /\ UNCHANGED <<simpleVars, tfVars, mcpVars>>

\* the first fetch of a (product, language) pair
CallDownload == AldrichFetch(0)

\* the fetch of the same pair repeated with the same answer of the server
CallDownloadAgain == AldrichFetch(1)

\* number of calls of ensure_page_loaded made on one client
MaxEnsure == 3

\* a call of ensure_page_loaded: the URL, and whether a GET of it succeeds
\* at the time of the call
EnsureCalls == [url : {S_base_host, TfUrlA}, ok : BOOLEAN]

EnsureInputs == {s \in SeqsUpTo(EnsureCalls, MaxEnsure) : Len(s) = MaxEnsure}

\* the next call of client.ensure_page_loaded of the list call.input, made on
\* the one client whose set is prefetched; call.output lists the GETs the
\* client has issued, each with its URL and whether it succeeded
CallEnsure ==
    /\ call.fn = "ensure_page_loaded" /\ call.step < Len(call.input)
    /\ LET c == call.input[call.step + 1]
           loaded == ensure_page_loaded(prefetched, c.url, c.ok)
       IN /\ prefetched' = loaded.prefetched
          /\ call' = [call EXCEPT !.step = call.step + 1,
                                  !.output = IF loaded.requested
                                             THEN Append(call.output, [url |-> c.url, ok |-> c.ok])
                                             ELSE call.output]
    /\ UNCHANGED <<commonVars, simpleVars, mcpVars>>
    /\ UNCHANGED <<product_urls, ui, page, page_requests, fetched, data, ri, product, visited, root_sku, child_skus, product_records, processed, error>>

\* no script runs: a function is called with one of the inputs
InitCalls ==
    /\ InitCommon
    /\ provider = "none"
    /\ args = Args("none", <<>>, <<>>, FALSE, NoInt)
    /\ call \in {Call("normalize_languages", input) : input \in NormalizeInputs}
               \cup {Call("parse_product_url", BuildProductUrl(p)) : p \in ProductUrlParts}
               \cup {Call("download_sds", input) : input \in FetchInputs}
               \cup {Call("ensure_page_loaded", input) : input \in EnsureInputs}

NextCalls ==
    \/ CallNormalize \/ CallNormalizeAgain
    \/ CallParse \/ CallParseAgain
    \/ CallDownload \/ CallDownloadAgain
    \/ CallEnsure

SpecCalls == InitCalls /\ [][NextCalls]_vars

\* ------------------------------------------------------------------------
\* aldrich_mcp.py
\* ------------------------------------------------------------------------

\* what the run of the Node helper can come back with (download_with_playwright
\* lines 51-78): a non-zero exit code, an output that is not JSON, or a
\* payload with the status and the content type of the response
HelperResults ==
    {[returncode |-> 1, decodable |-> TRUE, status |-> 0, ctype |-> <<>>],
     [returncode |-> 0, decodable |-> FALSE, status |-> 0, ctype |-> <<>>]}
    \cup [returncode : {0}, decodable : {TRUE}, status : Statuses, ctype : {CT_pdf, CT_octet, CT_html}]

\* aldrich_mcp.py line 139
McpAcceptLanguage(default_language, country) ==
    default_language \o <<"-">> \o country \o <<",">> \o default_language \o <<";", "q", "=", "0", ".", "9", ",", "e", "n", "-", "U", "S", ";", "q", "=", "0", ".", "8", ",", "e", "n", ";", "q", "=", "0", ".", "7">>

\* download_with_playwright(sds_url, output_path, referer, accept_language),
\* where h is what the helper came back with: what is reported and the
\* record returned
download_with_playwright(h, sds_url, output_path, referer, accept_language) ==
    IF h.returncode # 0 THEN [outcome |-> "helper", code |-> h.returncode, record |-> NoRecord]
    ELSE IF ~h.decodable THEN [outcome |-> "undecodable", code |-> 0, record |-> NoRecord]
    ELSE IF h.status # 200 THEN [outcome |-> "http", code |-> h.status, record |-> NoRecord]
    ELSE IF ~Contains(Lower(h.ctype), S_pdf) THEN [outcome |-> "content_type", code |-> 0, record |-> NoRecord]
    ELSE [outcome |-> "saved", code |-> 0,
          record |-> DownloadRecord(output_path,
                         <<Lower(Split(Split(accept_language, ",")[1], "-")[2])>>,
                         sds_url, [referer |-> referer])]

\* main up to the language loop (lines 124-149)
McpMain ==
    /\ provider = "mcp" /\ pc = "start"
    /\ \E helper_exists \in BOOLEAN :
          LET parsed == parse_product_url(args.urls[1])
          IN /\ product_url' = args.urls[1]
             /\ IF ~helper_exists
                THEN pc' = "exited" /\ exit_status' = 1 /\ UNCHANGED languages
                ELSE IF parsed = NoRecord
                THEN pc' = "exited" /\ exit_status' = 0 /\ UNCHANGED languages
                ELSE /\ pc' = "loop" /\ exit_status' = exit_status
                     /\ languages' = (IF normalize_languages(args.languages) # <<>>
                                      THEN normalize_languages(args.languages)
                                      ELSE <<parsed.language>>)
    /\ UNCHANGED <<provider, args, html, li, records, files, response, log, requests, summary>>
    /\ UNCHANGED <<simpleVars, tfVars, mcpVars, callVars>>

\* main's loop body up to the return of download_with_playwright (lines
\* 150-161); the document itself is written by the helper, not by the script
McpDownload ==
    /\ provider = "mcp" /\ pc = "loop" /\ li <= Len(languages)
    /\ LET p == parse_product_url(product_url)
           language == languages[li]
           sds_url == AldrichSdsUrl(p.country, language, p.brand, p.product_number)
           output_path == AldrichFilename(p.product_number, p.country, language)
       IN \E h \in HelperResults :
             LET res == download_with_playwright(h, sds_url, output_path, product_url,
                                                 McpAcceptLanguage(p.language, p.country))
             IN /\ record' = res.record
                /\ requests' = Append(requests, Request("GET", sds_url, language, NoData))
                /\ log' = Append(log, LogEntry(p.product_number, language, res.outcome, res.code))
    /\ pc' = "collect"
    /\ UNCHANGED <<provider, args, product_url, html, languages, li, records, files, response, summary, exit_status>>
    /\ UNCHANGED <<simpleVars, tfVars, callVars>>

\* the rest of the loop body (lines 162-164): the languages of the record
\* returned are set and the record is collected
McpCollect ==
    /\ provider = "mcp" /\ pc = "collect"
    /\ IF record # NoRecord
       THEN /\ record' = [record EXCEPT !.languages = <<Lower(languages[li])>>]
            /\ records' = Append(records, record')
       ELSE UNCHANGED <<record, records>>
    /\ li' = li + 1
    /\ pc' = "loop"
    /\ UNCHANGED <<provider, args, product_url, html, languages, files, response, log, requests, summary, exit_status>>
    /\ UNCHANGED <<simpleVars, tfVars, callVars>>

\* the end of main: the summary and sys.exit(0 if records else 1) (lines 166-175)
McpFinish ==
    /\ provider = "mcp" /\ pc = "loop" /\ li > Len(languages)
    /\ summary' = build_summary("aldrich", parse_product_url(product_url).product_number, records)
    /\ exit_status' = (IF records # <<>> THEN 0 ELSE 1)
    /\ pc' = "exited"
    /\ UNCHANGED <<provider, args, product_url, html, languages, li, records, files, response, log, requests>>
    /\ UNCHANGED <<simpleVars, tfVars, mcpVars, callVars>>

\* aldrich_mcp.py --product-url URL [-l LANG ...]
InitMcp ==
    /\ InitCommon
    /\ call = NoCall
    /\ provider = "mcp"
    /\ \E url \in AldrichUrls, langs \in LanguageLists :
          args = Args("url", <<url>>, langs, FALSE, NoInt)

NextMcp == McpMain \/ McpDownload \/ McpCollect \/ McpFinish

SpecMcp == InitMcp /\ [][NextMcp]_vars

Init == InitCommon /\ call = NoCall /\ (InitAldrich \/ InitSimple \/ InitTci \/ InitThermoFisher)

Next ==
    \/ AldrichMain \/ AldrichDownload \/ AldrichFinish
    \/ SimpleStart \/ SimpleDownload \/ SimpleFinish
    \/ TciMain \/ TciDownload \/ TciFinish
    \/ TfMain \/ TfProductBegin \/ TfCategoryFirst \/ TfCategoryNext \/ TfCategoryBody
    \/ TfDownload \/ TfProductEnd \/ TfFinish

Spec == Init /\ [][Next]_vars

\* thermofisher_sds.py --category-url URL [--max-products N]
InitCategory ==
    /\ InitCommon /\ call = NoCall
    /\ provider = "thermofisher"
    /\ \E cap \in Caps :
          args = Args("category", <<TfCategoryUrl>>, <<>>, FALSE, cap)

\* the steps of a category run
NextCategory ==
    \/ TfMain \/ TfCategoryFirst \/ TfCategoryNext \/ TfCategoryBody
    \/ TfDownload \/ TfProductEnd \/ TfFinish

\* a category run of the script: one sequential process, which takes its
\* next step whenever it has one
SpecCategory == InitCategory /\ [][NextCategory]_vars /\ WF_vars(NextCategory)

\* ------------------------------------------------------------------------
\* Properties
\* ------------------------------------------------------------------------

Min(a, b) == IF a <= b THEN a ELSE b

\* a declared content type carries an accepted marker: "pdf" or
\* "octet-stream" as a substring, compared case-insensitively
HasMarker(content_type) ==
    \E marker \in {S_pdf, S_octet_stream} :
       \E i \in 0..(Len(content_type) - Len(marker)) :
          Lower(SubSeq(content_type, i + 1, i + Len(marker))) = marker

\* the step is one iteration of a per-language loop
IterationStep == li' = li + 1

\* nothing is written and no record or returned path is added
NothingSaved ==
    /\ files' = files
    /\ records' = records
    /\ product_records' = product_records
    /\ downloaded_files' = downloaded_files

\* the iteration just taken reported outcome
Reported(outcome) == Len(log') = Len(log) + 1 /\ log'[Len(log')].outcome = outcome

\* the language codes the command line asks for
RequestedCodes ==
    {Lower(Strip(args.languages[i])) : i \in {j \in 1..Len(args.languages) : Strip(args.languages[j]) # <<>>}}

\* the languages the run is to fetch: those asked for, else the adapter's default
RequestedSet == IF RequestedCodes # {} THEN RequestedCodes ELSE SeqToSet(languages)

\* the language codes the fetched TCI page lists as available
PageLanguages == {html.languages[i] : i \in {j \in 1..Len(html.languages) : html.languages[j] # <<>>}}

\* the number of entries of s from position from on that satisfy keep
CountFrom(s, from, keep(_)) == Cardinality({i \in from..Len(s) : keep(s[i])})

\* the enumeration of a category run has ended without an error
EnumerationEnded ==
    provider = "thermofisher" /\ args.mode = "category" /\ pc \in {"finish", "exited"} /\ ~error

\* C1: when the enumeration of iter_category_products ends on the reported
\* count or on the cap (its last page was not empty), it has yielded exactly
\* min(totalCount, maxProducts) items, and exactly totalCount without a cap
C1_ExactYield ==
    (EnumerationEnded /\ data.catalogResultDTOs # <<>> /\ data.count # NoInt)
        => Len(visited) = (IF args.max_products = NoInt THEN data.count
                           ELSE Min(data.count, args.max_products))

\* C2: when a per-language loop of aldrich_sds, tci_get or thermofisher_sds
\* has run to its end, every requested language was attempted exactly once,
\* whatever the earlier languages came back with (in tci_get: every requested
\* language the page does not rule out)
C2_EveryLanguageOnce ==
    /\ (provider = "aldrich" /\ pc = "loop" /\ li > Len(languages))
          => \A l \in RequestedSet :
                CountFrom(requests, 1, LAMBDA q : q.language = l) = 1
    /\ (provider = "tci" /\ pc = "loop" /\ li > Len(languages))
          => \A l \in RequestedSet :
                (PageLanguages = {} \/ l \in PageLanguages)
                   => CountFrom(requests, 1, LAMBDA q : q.language = l) = 1
    /\ (provider = "thermofisher" /\ pc = "download" /\ li > Len(languages))
          => \A l \in RequestedSet :
                CountFrom(log, Len(log) - (li - 1) + 1, LAMBDA e : e.language = l) = 1

\* C2 witness: a loop over two languages ran to its end after the first
\* language failed with a transport error and the second was saved
C2_Witness ==
    /\ provider = "aldrich" /\ pc = "loop" /\ li > Len(languages)
    /\ Len(log) = 2
    /\ log[1].outcome = "transport"
    /\ log[2].outcome = "saved"

\* C3: a Thermo Fisher product run that has ended has taken up every product
\* URL it was given: no failure about one product keeps the loop from the rest
C3_EveryProductProcessed ==
    (provider = "thermofisher" /\ args.mode = "url" /\ pc = "exited")
        => Len(visited) = Len(product_urls)

\* C4: a run of aldrich_sds, tci_get or thermofisher_sds ends with status
\* zero if and only if it produced at least one DownloadRecord
C4_ExitStatus ==
    (provider \in {"aldrich", "tci", "thermofisher"} /\ pc = "exited")
        => (exit_status = 0 <=> records # <<>>)

\* C5: in every adapter an iteration whose response declares a content type
\* without "pdf" and without "octet-stream" writes no file and adds no
\* record, whatever the status of the response
C5_RejectsUnmarked ==
    [][(IterationStep /\ response'.kind = "http" /\ ~HasMarker(response'.ctype))
          => NothingSaved]_vars

\* C5 witness: a 200 response of type text/html was rejected for its content
\* type and nothing is on disk
C5_Witness ==
    /\ response.kind = "http" /\ response.status = 200 /\ response.ctype = CT_html
    /\ log # <<>> /\ log[Len(log)].outcome = "content_type"
    /\ files = {} /\ records = <<>>

\* C6: in every adapter an iteration whose response has status 200 and a
\* content type containing "pdf" or "octet-stream" in any letter case is
\* accepted: the document is saved
C6_AcceptsMarked ==
    [][(IterationStep /\ response'.kind = "http" /\ response'.status = 200
           /\ HasMarker(response'.ctype))
          => Reported("saved")]_vars

Validated(r) == r.kind = "http" /\ r.status = 200 /\ HasMarker(r.ctype)

FallbackName(product_code, country_code, language) ==
    product_code \o <<"_">> \o country_code \o <<"_">> \o Upper(language) \o S_dot_pdf

\* the country a run of thermofisher_sds works for (ThermoFisherClient.country)
TfCountry == <<"k", "r">>

\* C9: a document saved without a usable disposition header is named
\* {productCode}_{countryCode}_{LANGUAGE}.pdf, in every adapter
C9_FallbackName ==
    [][(IterationStep /\ Reported("saved")
           /\ (provider = "tci" => response'.disposition \in {NoDisposition} \cup UnparsableDispositions))
          => \E f \in files' :
                f.path = FallbackName(log'[Len(log')].product,
                             CASE provider = "aldrich" -> parse_product_url(product_url).country
                               [] provider = "simple" -> parse_product_url(product_url).country
                               [] provider = "tci" -> html.selected_country
                               [] OTHER -> TfCountry,
                             log'[Len(log')].language)]_vars

\* C10 as claimed: in tci_get no POST is issued and no record is created for
\* a requested language that the page does not list as available
C10_OnlyListedLanguages ==
    (provider = "tci" /\ html # NoRecord)
        => /\ \A i \in 1..Len(requests) : requests[i].language \in PageLanguages
           /\ \A i \in 1..Len(records) : records[i].languages[1] \in PageLanguages

\* the requested languages the loop has passed that the page lists
RECURSIVE ListedAmong(_, _)
ListedAmong(langs, n) ==
    IF n = 0 THEN <<>>
    ELSE ListedAmong(langs, n - 1) \o (IF langs[n] \in PageLanguages THEN <<langs[n]>> ELSE <<>>)

\* C10 amended: in tci_get, when the page lists at least one available
\* language, a requested language that is not listed is skipped, with no POST
\* and no record for it, while the listed ones are posted, in order
C10_SkipsUnlisted ==
    (provider = "tci" /\ pc = "loop" /\ PageLanguages # {})
        => /\ [i \in 1..Len(requests) |-> requests[i].language] = ListedAmong(languages, li - 1)
           /\ \A i \in 1..Len(records) : records[i].languages[1] \in PageLanguages
           /\ \A i \in 1..Len(log) : log[i].outcome = "skipped" <=> log[i].language \notin PageLanguages

\* C10 witness: ko and en were requested, the page lists only ko: en was
\* skipped and the one record is that of ko
C10_Witness ==
    /\ provider = "tci" /\ pc = "loop" /\ li > Len(languages)
    /\ PageLanguages = {LangKo}
    /\ RequestedCodes = {LangKo, LangEn}
    /\ Len(records) = 1 /\ records[1].languages = <<LangKo>>
    /\ \E i \in 1..Len(log) : log[i].language = LangEn /\ log[i].outcome = "skipped"
    /\ Len(requests) = 1

\* the place of a code in the caller's list: the position of the first entry
\* that asks for it
CallerPosition(code) ==
    CHOOSE i \in 1..Len(args.languages) :
       /\ Lower(Strip(args.languages[i])) = code
       /\ \A j \in 1..(i - 1) : Lower(Strip(args.languages[j])) # code

\* C11: when the caller names the languages, the document requests of a run
\* are issued in the order in which the caller named them
C11_CallerOrder ==
    (provider \in {"aldrich", "simple", "tci", "thermofisher"} /\ RequestedCodes # {})
        => \A i, j \in 1..Len(requests) :
              i < j => CallerPosition(requests[i].language) <= CallerPosition(requests[j].language)

\* the codes a list of the caller asks for: its entries trimmed and
\* lower-cased, the blank ones dropped
CodesOf(list) ==
    {Lower(Strip(list[i])) : i \in {j \in 1..Len(list) : Strip(list[j]) # <<>>}}

\* C12: normalize_languages is idempotent and canonical: normalizing its
\* result returns the same list; the result has no duplicates, no blank
\* entries and only trimmed lower-case codes; and any two lists that ask for
\* the same codes (in another order, letter case, with other surrounding
\* blanks or repetitions) normalize to the same list
C12_NormalizeCanonical ==
    (call.fn = "normalize_languages" /\ call.step >= 1)
        => /\ \A i, j \in 1..Len(call.output) : i # j => call.output[i] # call.output[j]
           /\ \A i \in 1..Len(call.output) :
                 /\ call.output[i] # <<>>
                 /\ Lower(call.output[i]) = call.output[i]
                 /\ Strip(call.output[i]) = call.output[i]
           /\ SeqToSet(call.output) = CodesOf(call.input)
           /\ \A other \in NormalizeInputs :
                 CodesOf(other) = CodesOf(call.input) => normalize_languages(other) = call.output
           /\ call.step = 2 => call.again = call.output

\* C12 witness: the list " EN ", ko, en was normalized to en, ko, and
\* normalizing that again returned en, ko
C12_Witness ==
    /\ call.fn = "normalize_languages" /\ call.step = 2
    /\ call.input = <<LangArgEN, LangKo, LangEn>>
    /\ call.output = <<LangEn, LangKo>>
    /\ call.again = <<LangEn, LangKo>>

\* the parts are those of a URL of the form
\* https://www.sigmaaldrich.com/{CC}/{ll}/product/{brand}/{product}
FormsProductUrl(p) ==
    /\ p.host = <<"h", "t", "t", "p", "s", ":", "/", "/", "w", "w", "w", ".", "s", "i", "g", "m", "a", "a", "l", "d", "r", "i", "c", "h", ".", "c", "o", "m", "/">>
    /\ Len(p.country) = 2 /\ \A i \in 1..Len(p.country) : IsUpper(p.country[i])
    /\ Len(p.language) = 2 /\ \A i \in 1..Len(p.language) : IsLower(p.language[i])
    /\ p.brand # <<>> /\ \A i \in 1..Len(p.brand) : p.brand[i] # "/"
    /\ p.product_number # <<>> /\ \A i \in 1..Len(p.product_number) : p.product_number[i] \notin {"/", "?", "#"}

\* the four parts as parse_product_url returns them
FourParts(p) ==
    [country |-> p.country, language |-> p.language, brand |-> p.brand, product_number |-> p.product_number]

\* C13 as claimed: parse_product_url recovers the four parts of every URL of
\* the form, parsing the URL rebuilt from them returns the same parts, and
\* every other URL parses to None
C13_ParseRoundTrip ==
    \A p \in ProductUrlParts :
       (call.fn = "parse_product_url" /\ call.step >= 1 /\ call.input = BuildProductUrl(p))
          => IF FormsProductUrl(p) /\ p.rest = <<>>
             THEN /\ call.output = FourParts(p)
                  /\ call.step = 2 => call.again = call.output
             ELSE call.output = NoRecord

\* C13 amended: parse_product_url recovers the four parts of every URL that
\* begins with a URL of the form and goes on with nothing or with a path, a
\* query or a fragment, which it ignores; parsing the URL rebuilt from the
\* parts returns the same parts; a URL that does not begin with a URL of the
\* form parses to None
C13_ParsePrefixRoundTrip ==
    \A p \in ProductUrlParts :
       (call.fn = "parse_product_url" /\ call.step >= 1 /\ call.input = BuildProductUrl(p))
          => IF FormsProductUrl(p)
             THEN /\ call.output = FourParts(p)
                  /\ call.step = 2 => call.again = call.output
             ELSE call.output = NoRecord

\* C13 witness: a product URL followed by a query was parsed to its four
\* parts, and the URL rebuilt from them was parsed to the same parts
C13_Witness ==
    /\ call.fn = "parse_product_url" /\ call.step = 2
    /\ call.input = <<"h", "t", "t", "p", "s", ":", "/", "/", "w", "w", "w", ".", "s", "i", "g", "m", "a", "a", "l", "d", "r", "i", "c", "h", ".", "c", "o", "m", "/", "K", "R", "/", "k", "o", "/", "p", "r", "o", "d", "u", "c", "t", "/", "s", "i", "a", "l", "/", "3", "4", "8", "7", "3", "?", "x", "=", "1">>
    /\ call.output = [country |-> <<"K", "R">>, language |-> <<"k", "o">>, brand |-> <<"s", "i", "a", "l">>, product_number |-> <<"3", "4", "8", "7", "3">>]
    /\ call.again = call.output

\* the DownloadRecords created so far: those collected, and in a Thermo
\* Fisher run those download_for_product has not returned yet
Created ==
    IF provider = "thermofisher" /\ pc = "download" THEN records \o product_records ELSE records

\* the status by which the vendor of the run tells success: 200, and any
\* 2xx status for Thermo Fisher, whose client only refuses error statuses
SuccessStatus(status) ==
    IF provider = "thermofisher" THEN status \in 200..299 ELSE status = 200

\* C14: a DownloadRecord comes into being only in a step whose fetch returned
\* the success status, passed the content-type check and had its bytes
\* written to the record's path; and the downloads of the summary are records
\* of (product, language) pairs that were saved, never failed or skipped ones
C14_RecordsAreValidated ==
    [][/\ (Created' # Created)
             => /\ IterationStep
                /\ Len(Created') = Len(Created) + 1
                /\ response'.kind = "http"
                /\ SuccessStatus(response'.status)
                /\ HasMarker(response'.ctype)
                /\ [path |-> Created'[Len(Created')].path, content |-> response'.content] \in files'
                /\ Reported("saved")
                /\ Created'[Len(Created')].languages = <<Lower(log'[Len(log')].language)>>
       /\ (summary' # NoRecord)
             => \A i \in 1..Len(summary'.downloads) :
                   /\ \E k \in 1..Len(records') : records'[k] = summary'.downloads[i]
                   /\ \E k \in 1..Len(log') :
                         /\ log'[k].outcome = "saved"
                         /\ <<Lower(log'[k].language)>> = summary'.downloads[i].languages
                   /\ \E f \in files' : f.path = summary'.downloads[i].path]_vars

\* C14 witness: a TCI run asked for two languages, one failed on its HTTP
\* status, and the summary lists the one document that was saved
C14_Witness ==
    /\ provider = "tci" /\ pc = "exited"
    /\ Len(log) = 2
    /\ \E k \in 1..2 : log[k].outcome = "http"
    /\ summary # NoRecord
    /\ Len(summary.downloads) = 1
    /\ \E f \in files : f.path = summary.downloads[1].path

\* C15: a DownloadRecord is write-once: a step that creates no record (it
\* runs no download) leaves every field of the record at hand as it is, and
\* the records list only grows, by appending that record as it was created
C15_WriteOnce ==
    [][/\ (requests' = requests /\ record # NoRecord) => record' = record
       /\ Len(records') >= Len(records)
       /\ \A i \in 1..Len(records) : records'[i] = records[i]
       /\ (Len(records') > Len(records)) => records' = Append(records, record)]_vars

\* C16: when an error has interrupted a Thermo Fisher run, the summary is
\* still emitted and its downloads are the DownloadRecords completed before
\* the error
C16_SummaryKeepsCompleted ==
    (provider = "thermofisher" /\ pc = "exited" /\ error)
        => /\ summary # NoRecord
           /\ summary.downloads = records

\* C17: a failure of the request for a catalog page after the first does not
\* end the Thermo Fisher run with the error
C17_LaterPageNotFatal ==
    [][(provider = "thermofisher" /\ page' > page /\ page' > 1) => ~error']_vars

\* an input marker that is absent from the page or whose value is empty
MarkerMissing(value) == value = None \/ Strip(value) = <<>>

\* the option codes of the page that are not empty, in page order
PageCodes(h) ==
    SelectIdx(h.languages, {i \in 1..Len(h.languages) : Strip(h.languages[i]) # <<>>}, 1)

\* C18: parse_sds_metadata returns None exactly when the product code or the
\* country marker is absent or empty, whatever the token and the context path
\* are (a missing context path becomes "/"); with metadata and a language to
\* try the run goes on to the download loop, and an iteration on a page
\* without token still issues its POST, the form carrying no CSRFToken field
C18_MetadataAndToken ==
    [][provider = "tci" =>
        /\ (pc = "start" /\ html' # NoRecord) =>
              /\ parse_sds_metadata(html') = NoRecord
                    <=> (MarkerMissing(html'.product_code) \/ MarkerMissing(html'.selected_country))
              /\ \A c \in {None, EncodedContextPath}, t \in {None, CsrfToken} :
                    (parse_sds_metadata([html' EXCEPT !.context = c, !.csrf = t]) = NoRecord)
                        <=> (parse_sds_metadata(html') = NoRecord)
              /\ (parse_sds_metadata(html') # NoRecord /\ html'.context = None)
                    => parse_sds_metadata(html').context_path = S_slash
              /\ ( /\ args.download_sds
                   /\ ~MarkerMissing(html'.product_code) /\ ~MarkerMissing(html'.selected_country)
                   /\ (normalize_languages(args.languages) # <<>> \/ PageCodes(html') # <<>>) )
                    => pc' = "loop"
        /\ ( /\ pc = "loop" /\ IterationStep /\ html.csrf = None
             /\ Strip(languages[li]) # <<>>
             /\ ~TciSkips(AvailableLanguages(parse_sds_metadata(html)), Strip(languages[li])) )
              => /\ Len(requests') = Len(requests) + 1
                 /\ requests'[Len(requests')].method = "POST"
                 /\ requests'[Len(requests')].language = Strip(languages[li])
                 /\ "CSRFToken" \notin DOMAIN requests'[Len(requests')].data
                 /\ "productCode" \in DOMAIN requests'[Len(requests')].data
    ]_vars

\* C18 witness: a page with both markers but neither token nor context path
\* gave metadata, and a document was posted for without token field and saved
C18_Witness ==
    /\ provider = "tci" /\ html # NoRecord
    /\ html.csrf = None /\ html.context = None
    /\ parse_sds_metadata(html) # NoRecord
    /\ requests # <<>> /\ "CSRFToken" \notin DOMAIN requests[Len(requests)].data
    /\ Len(records) = 1

\* C19: a TCI run whose caller requested no languages has, when it ends,
\* posted for exactly the non-empty option codes of the page, in page order
C19_DefaultsInPageOrder ==
    ( /\ provider = "tci" /\ pc = "exited" /\ html # NoRecord
      /\ args.download_sds /\ normalize_languages(args.languages) = <<>>
      /\ parse_sds_metadata(html) # NoRecord )
    => [i \in 1..Len(requests) |-> requests[i].language] = PageCodes(html)

\* C19 witness: nothing requested, the page lists ko, an empty option and en,
\* and the run posted for ko and then for en
C19_Witness ==
    /\ provider = "tci" /\ pc = "exited" /\ args.languages = <<>>
    /\ html # NoRecord /\ Len(html.languages) = 3
    /\ Len(requests) = 2
    /\ requests[1].language = LangKo /\ requests[2].language = LangEn

\* the product page request of prime_session failed: no answer, or an
\* answer with an error status
PrimeFailed(r) == r.kind = "error" \/ (r.kind = "http" /\ r.status >= 400)

\* C20: when the priming request of aldrich_sds fails, the run ends at once
\* with a non-zero exit status and without any document request, file,
\* record or summary, and an ended run issues nothing more
C20_PrimeFailureStops ==
    [][provider = "aldrich" =>
        /\ (pc = "start" /\ response' # response /\ PrimeFailed(response')) =>
              /\ pc' = "exited" /\ exit_status' # 0
              /\ requests' = <<>> /\ records' = <<>> /\ NothingSaved
              /\ files' = files /\ summary' = NoRecord
        /\ pc = "exited" => (requests' = requests /\ records' = records /\ files' = files)
    ]_vars

\* C20 witness: the product URL parsed, the priming request came back with
\* status 404 and the run has ended with status 1 and nothing requested
C20_Witness ==
    /\ provider = "aldrich" /\ pc = "exited" /\ exit_status = 1
    /\ product_url # None /\ parse_product_url(product_url) # NoRecord
    /\ response.kind = "http" /\ response.status = 404
    /\ requests = <<>> /\ records = <<>>

\* a keyword search result of Thermo Fisher that names a product: its child
\* catalog number is a string that is not blank
Qualifying(entry) ==
    entry.childCatalogNumber # None /\ Strip(entry.childCatalogNumber) # <<>>

\* the positions of the results that qualify
QualifyingAt(results) == {i \in 1..Len(results) : Qualifying(results[i])}

\* the run ended as ProductNotFound: non-zero exit status, no document
\* request, no file, no record
EndedNotFound ==
    /\ pc = "exited" /\ exit_status # 0 /\ exit_status # NoInt
    /\ requests = <<>> /\ records = <<>> /\ files = {}

\* C21: a search that yields no qualifying result ends the run as
\* ProductNotFound before any product page is primed (aldrich_sds, tci_get,
\* thermofisher_sds); a Thermo Fisher search that yields qualifying results
\* makes the first of them the product of the run
C21_SearchOutcome ==
    /\ ( /\ provider \in {"aldrich", "tci"} /\ args.mode = "search"
         /\ pc # "start" /\ product_url = None )
       => (EndedNotFound /\ response = NoResponse /\ html = NoRecord)
    /\ ( /\ provider = "thermofisher" /\ args.mode = "search" /\ data # NoRecord )
       => LET results == data.catalogResultDTOs
              first == CHOOSE i \in QualifyingAt(results) : \A j \in QualifyingAt(results) : i <= j
          IN IF QualifyingAt(results) = {}
             THEN EndedNotFound /\ product_urls = <<>> /\ prefetched \subseteq {S_base_host}
             ELSE /\ product_urls # <<>>
                  /\ product_urls[1] = S_base_host \o S_apac_product \o Strip(results[first].childCatalogNumber)

\* C22: two consecutive fetches of the same (product, language) pair that
\* get the same answer of the server write to the same path, and the file
\* holds after the second fetch the very bytes it held after the first, the
\* bytes of the answer; a fetch that is rejected the first time is rejected
\* the second time and writes nothing
C22_SameBytesTwice ==
    (call.fn = "download_sds" /\ call.step = 2) =>
        /\ call.again.path = call.output.path
        /\ call.again.saved = call.output.saved
        /\ call.again.bytes = call.output.bytes
        /\ call.output.saved =>
              /\ call.output.bytes = call.input.response.content
              /\ files = {[path |-> call.output.path, content |-> call.input.response.content]}
        /\ ~call.output.saved => files = {}

\* C22 witness: the pair was fetched twice, saved both times, and the file
\* holds the body of the answer
C22_Witness ==
    /\ call.fn = "download_sds" /\ call.step = 2
    /\ call.output.saved /\ call.again.saved
    /\ Len(requests) = 2 /\ requests[1] = requests[2]
    /\ Len(call.again.bytes) > 0
    /\ \E f \in files : f.path = call.again.path /\ f.content = call.again.bytes

\* the step calls fetch_category_page
RequestsPage == Len(page_requests') > Len(page_requests)

\* C23: the category pages are requested as 1, 2, 3, ... in order, each once
\* and one per step; a page is requested after the first only while the last
\* page carried items, the items yielded so far are fewer than the count it
\* reported and fewer than the cap
C23_PagesInOrder ==
    [][provider = "thermofisher" =>
        /\ \A i \in 1..Len(page_requests') : page_requests'[i] = i
        /\ Len(page_requests') <= Len(page_requests) + 1
        /\ (RequestsPage /\ page_requests # <<>>) =>
              /\ data # NoRecord /\ data.catalogResultDTOs # <<>>
              /\ data.count = NoInt \/ Len(visited) < data.count
              /\ args.max_products = NoInt \/ Len(visited) < args.max_products
        /\ RequestsPage => (args.mode = "category" /\ pc \in {"gen_first", "gen_resume"})
    ]_vars

\* C23 witness: pages 1, 2 and 3 were requested, the third came back empty
\* and the run has ended
C23_Witness ==
    /\ provider = "thermofisher" /\ pc = "exited" /\ ~error
    /\ page_requests = <<1, 2, 3>>
    /\ data.catalogResultDTOs = <<>>

\* the (product, language) pair a record was made for
PairOf(rec) == <<rec.metadata, rec.languages>>

\* C24: within one run no two records made for different (product,
\* language) pairs name the same output path
C24_DistinctPaths ==
    \A i, j \in 1..Len(records) :
       (i < j /\ PairOf(records[i]) # PairOf(records[j])) => records[i].path # records[j].path

\* C25: a category run without cap comes to the end of its enumeration: the
\* generator is exhausted (or has raised) and the handler has left its loop
C25_EnumerationFinite ==
    (provider = "thermofisher" /\ args.mode = "category" /\ args.max_products = NoInt)
        ~> (pc \in {"finish", "exited"})

\* C25 witness: without cap the enumeration went through two pages with
\* items and ended without an error
C25_Witness ==
    /\ provider = "thermofisher" /\ args.mode = "category" /\ args.max_products = NoInt
    /\ pc = "exited" /\ ~error
    /\ Len(page_requests) >= 2 /\ Len(visited) >= 2

\* the last page fetched carried items but no count field
PageWithoutCount(d) ==
    d # NoRecord /\ d.count = NoInt /\ d.catalogResultDTOs # <<>>

\* C26: once a page with items but without count field has been fetched, no
\* page is requested any more; and a run without cap that ends without an
\* error after such a page has yielded all the items of that page
C26_NoCountStops ==
    [][(provider = "thermofisher" /\ args.mode = "category") =>
        /\ PageWithoutCount(data) => ~RequestsPage
        /\ (PageWithoutCount(data') /\ pc' = "exited" /\ ~error' /\ args.max_products = NoInt) =>
              /\ Len(visited') >= Len(data'.catalogResultDTOs)
              /\ SubSeq(visited', Len(visited') - Len(data'.catalogResultDTOs) + 1, Len(visited'))
                    = data'.catalogResultDTOs
              /\ page_requests'[Len(page_requests')] = page'
    ]_vars

\* C26 witness: the first page carried two items and no count, both were
\* yielded, no second page was requested and the run has ended
C26_Witness ==
    /\ provider = "thermofisher" /\ args.mode = "category" /\ args.max_products = NoInt
    /\ pc = "exited" /\ ~error
    /\ PageWithoutCount(data) /\ Len(data.catalogResultDTOs) = 2
    /\ page_requests = <<1>> /\ visited = data.catalogResultDTOs

\* the GETs issued so far for url that succeeded
PrimedAt(gets, url) == {i \in 1..Len(gets) : gets[i].url = url /\ gets[i].ok}

\* C27: on one client a URL is in the prefetched set exactly when a GET of
\* it has succeeded, and no URL has more than one successful GET; a call for
\* a URL in the set issues no GET, a call for a URL outside it issues one,
\* and a GET that fails leaves the set as it was
C27_PrefetchedOnlyAfterGet ==
    [][call.fn = "ensure_page_loaded" =>
        LET c == call.input[call.step + 1]
        IN /\ \A u \in prefetched' : PrimedAt(call'.output, u) # {}
           /\ \A u \in {S_base_host, TfUrlA} :
                 /\ Cardinality(PrimedAt(call'.output, u)) <= 1
                 /\ PrimedAt(call'.output, u) # {} => u \in prefetched'
           /\ c.url \in prefetched => (call'.output = call.output /\ prefetched' = prefetched)
           /\ c.url \notin prefetched =>
                 /\ call'.output = Append(call.output, [url |-> c.url, ok |-> c.ok])
                 /\ prefetched' = (IF c.ok THEN prefetched \cup {c.url} ELSE prefetched)
    ]_vars

\* C27 witness: the GET of the first call failed, the second call for the
\* same URL tried again and succeeded, and the third call issued nothing
C27_Witness ==
    /\ call.fn = "ensure_page_loaded" /\ call.step = 3
    /\ call.input[1].url = TfUrlA /\ call.input[2].url = TfUrlA /\ call.input[3].url = TfUrlA
    /\ call.output = <<[url |-> TfUrlA, ok |-> FALSE], [url |-> TfUrlA, ok |-> TRUE]>>
    /\ prefetched = {TfUrlA}

====
